---- MODULE Spec2Model ----
(***************************************************************************)
(* Biomarker analytics engine of HealthCanvas                              *)
(* (frontend/src/HealthCanvas.jsx): classifier, trend analyzer, pattern    *)
(* detector, goal tracker, scores, Visit-Prep and the timeline's lab        *)
(* events, and the application state around them (session, offline store,  *)
(* asynchronous API calls).                                                *)
(*                                                                         *)
(* Numbers.  Observation values, range bounds and rule thresholds are      *)
(* fixed-point integers in hundredths of the source unit (5.6 is 560,      *)
(* 0.05 is 5), so every constant of the source is exact.  Percentages are  *)
(* kept as exact fractions and compared by cross-multiplication; toFixed(1)*)
(* is modelled as rounding half up to an integer number of tenths.  The    *)
(* binary floating-point error of the JavaScript arithmetic is not         *)
(* modelled.  Dates are day numbers; every modelled date is a valid date.  *)
(***************************************************************************)
EXTENDS Integers, Sequences, FiniteSets, TLC

VARIABLES
  records,   \* the observation collection held by the application / passed by the caller
  goals,     \* the goal list passed to GoalsTracker
  call,      \* the last analytics invocation and its scalar arguments
  result,    \* what that invocation returned
  user,            \* App state: the signed-in user, "null" when none
  offlineMode,     \* App state
  loading,         \* App state
  watchedMarkers,  \* App state: a Set of marker ids
  token,           \* api.token: <<>> when null, else <<t>>
  storage,         \* localStorage: the entries healthcanvas_token and healthcanvas_offline
  server,          \* the observations the API holds
  pending          \* the asynchronous calls that wait for a response

appVars == <<user, offlineMode, loading, watchedMarkers, token, storage, server, pending>>

vars == <<records, goals, call, result, appVars>>

\* The application around a snapshot that only the analytics are applied to:
\* offline, loaded, nothing stored and nothing in flight.
AppAtRest ==
  /\ user = "null"
  /\ offlineMode = TRUE
  /\ loading = FALSE
  /\ watchedMarkers = {}
  /\ token = <<>>
  /\ storage = [token |-> <<>>, offline |-> <<>>]
  /\ server = <<>>
  /\ pending = <<>>

----------------------------------------------------------------------------
(* Reference catalog                                                       *)

BIOMARKER_DEFINITIONS ==
  [
      glucose |-> [category |-> "Metabolic", normalRange |-> <<7000, 10000>>, optimalRange |-> <<7200, 9000>>, criticalLow |-> 5400, criticalHigh |-> 12600, higherIsBetter |-> "false"],
      hba1c |-> [category |-> "Metabolic", normalRange |-> <<400, 560>>, optimalRange |-> <<450, 520>>, criticalLow |-> 350, criticalHigh |-> 650, higherIsBetter |-> "false"],
      insulin |-> [category |-> "Metabolic", normalRange |-> <<260, 2490>>, optimalRange |-> <<300, 1000>>, criticalLow |-> 100, criticalHigh |-> 3000, higherIsBetter |-> "false"],
      totalCholesterol |-> [category |-> "Cardiovascular", normalRange |-> <<12500, 20000>>, optimalRange |-> <<14000, 18000>>, criticalLow |-> 10000, criticalHigh |-> 24000, higherIsBetter |-> "null"],
      ldl |-> [category |-> "Cardiovascular", normalRange |-> <<0, 10000>>, optimalRange |-> <<0, 7000>>, criticalLow |-> 0, criticalHigh |-> 16000, higherIsBetter |-> "false"],
      hdl |-> [category |-> "Cardiovascular", normalRange |-> <<4000, 10000>>, optimalRange |-> <<6000, 10000>>, criticalLow |-> 3500, criticalHigh |-> 12000, higherIsBetter |-> "true"],
      triglycerides |-> [category |-> "Cardiovascular", normalRange |-> <<0, 15000>>, optimalRange |-> <<0, 10000>>, criticalLow |-> 0, criticalHigh |-> 50000, higherIsBetter |-> "false"],
      homocysteine |-> [category |-> "Cardiovascular", normalRange |-> <<500, 1500>>, optimalRange |-> <<600, 1000>>, criticalLow |-> 300, criticalHigh |-> 2000, higherIsBetter |-> "false"],
      creatinine |-> [category |-> "Kidney", normalRange |-> <<70, 130>>, optimalRange |-> <<80, 110>>, criticalLow |-> 50, criticalHigh |-> 150, higherIsBetter |-> "false"],
      egfr |-> [category |-> "Kidney", normalRange |-> <<9000, 12000>>, optimalRange |-> <<10000, 12000>>, criticalLow |-> 6000, criticalHigh |-> 15000, higherIsBetter |-> "true"],
      bun |-> [category |-> "Kidney", normalRange |-> <<700, 2000>>, optimalRange |-> <<1000, 1600>>, criticalLow |-> 500, criticalHigh |-> 3000, higherIsBetter |-> "false"],
      uricAcid |-> [category |-> "Kidney", normalRange |-> <<350, 720>>, optimalRange |-> <<400, 600>>, criticalLow |-> 200, criticalHigh |-> 900, higherIsBetter |-> "false"],
      alt |-> [category |-> "Liver", normalRange |-> <<700, 5600>>, optimalRange |-> <<1000, 3500>>, criticalLow |-> 500, criticalHigh |-> 10000, higherIsBetter |-> "false"],
      ast |-> [category |-> "Liver", normalRange |-> <<1000, 4000>>, optimalRange |-> <<1500, 3000>>, criticalLow |-> 500, criticalHigh |-> 8000, higherIsBetter |-> "false"],
      ggt |-> [category |-> "Liver", normalRange |-> <<900, 4800>>, optimalRange |-> <<1000, 3000>>, criticalLow |-> 500, criticalHigh |-> 10000, higherIsBetter |-> "false"],
      bilirubin |-> [category |-> "Liver", normalRange |-> <<10, 120>>, optimalRange |-> <<20, 80>>, criticalLow |-> 0, criticalHigh |-> 200, higherIsBetter |-> "false"],
      albumin |-> [category |-> "Liver", normalRange |-> <<350, 550>>, optimalRange |-> <<400, 500>>, criticalLow |-> 300, criticalHigh |-> 600, higherIsBetter |-> "true"],
      alp |-> [category |-> "Liver", normalRange |-> <<4400, 14700>>, optimalRange |-> <<5000, 12000>>, criticalLow |-> 3000, criticalHigh |-> 20000, higherIsBetter |-> "false"],
      tsh |-> [category |-> "Thyroid", normalRange |-> <<40, 400>>, optimalRange |-> <<100, 250>>, criticalLow |-> 10, criticalHigh |-> 1000, higherIsBetter |-> "null"],
      freeT4 |-> [category |-> "Thyroid", normalRange |-> <<80, 180>>, optimalRange |-> <<100, 150>>, criticalLow |-> 50, criticalHigh |-> 250, higherIsBetter |-> "null"],
      freeT3 |-> [category |-> "Thyroid", normalRange |-> <<200, 440>>, optimalRange |-> <<250, 400>>, criticalLow |-> 150, criticalHigh |-> 500, higherIsBetter |-> "null"],
      crp |-> [category |-> "Inflammation", normalRange |-> <<0, 300>>, optimalRange |-> <<0, 100>>, criticalLow |-> 0, criticalHigh |-> 1000, higherIsBetter |-> "false"],
      esr |-> [category |-> "Inflammation", normalRange |-> <<0, 2000>>, optimalRange |-> <<0, 1000>>, criticalLow |-> 0, criticalHigh |-> 4000, higherIsBetter |-> "false"],
      vitaminD |-> [category |-> "Nutrients", normalRange |-> <<3000, 10000>>, optimalRange |-> <<4000, 6000>>, criticalLow |-> 2000, criticalHigh |-> 10000, higherIsBetter |-> "true"],
      vitaminB12 |-> [category |-> "Nutrients", normalRange |-> <<20000, 90000>>, optimalRange |-> <<40000, 70000>>, criticalLow |-> 15000, criticalHigh |-> 100000, higherIsBetter |-> "true"],
      folate |-> [category |-> "Nutrients", normalRange |-> <<300, 1700>>, optimalRange |-> <<500, 1500>>, criticalLow |-> 200, criticalHigh |-> 2000, higherIsBetter |-> "true"],
      iron |-> [category |-> "Nutrients", normalRange |-> <<6000, 17000>>, optimalRange |-> <<7000, 14000>>, criticalLow |-> 4000, criticalHigh |-> 20000, higherIsBetter |-> "null"],
      ferritin |-> [category |-> "Nutrients", normalRange |-> <<3000, 30000>>, optimalRange |-> <<5000, 15000>>, criticalLow |-> 1500, criticalHigh |-> 40000, higherIsBetter |-> "null"],
      calcium |-> [category |-> "Nutrients", normalRange |-> <<850, 1050>>, optimalRange |-> <<900, 1000>>, criticalLow |-> 750, criticalHigh |-> 1150, higherIsBetter |-> "null"],
      magnesium |-> [category |-> "Nutrients", normalRange |-> <<170, 220>>, optimalRange |-> <<190, 210>>, criticalLow |-> 140, criticalHigh |-> 250, higherIsBetter |-> "null"],
      zinc |-> [category |-> "Nutrients", normalRange |-> <<6000, 12000>>, optimalRange |-> <<7000, 10000>>, criticalLow |-> 5000, criticalHigh |-> 15000, higherIsBetter |-> "null"],
      hemoglobin |-> [category |-> "Blood Count", normalRange |-> <<1200, 1750>>, optimalRange |-> <<1350, 1600>>, criticalLow |-> 1000, criticalHigh |-> 1850, higherIsBetter |-> "null"],
      hematocrit |-> [category |-> "Blood Count", normalRange |-> <<3600, 5000>>, optimalRange |-> <<4000, 4600>>, criticalLow |-> 3000, criticalHigh |-> 5500, higherIsBetter |-> "null"],
      rbc |-> [category |-> "Blood Count", normalRange |-> <<400, 550>>, optimalRange |-> <<450, 520>>, criticalLow |-> 350, criticalHigh |-> 600, higherIsBetter |-> "null"],
      wbc |-> [category |-> "Blood Count", normalRange |-> <<400, 1100>>, optimalRange |-> <<500, 900>>, criticalLow |-> 300, criticalHigh |-> 1500, higherIsBetter |-> "null"],
      platelets |-> [category |-> "Blood Count", normalRange |-> <<15000, 40000>>, optimalRange |-> <<17500, 35000>>, criticalLow |-> 10000, criticalHigh |-> 50000, higherIsBetter |-> "null"],
      mcv |-> [category |-> "Blood Count", normalRange |-> <<8000, 10000>>, optimalRange |-> <<8200, 9600>>, criticalLow |-> 7000, criticalHigh |-> 11000, higherIsBetter |-> "null"],
      testosterone |-> [category |-> "Hormones", normalRange |-> <<30000, 100000>>, optimalRange |-> <<50000, 80000>>, criticalLow |-> 20000, criticalHigh |-> 120000, higherIsBetter |-> "null"],
      estradiol |-> [category |-> "Hormones", normalRange |-> <<1000, 4000>>, optimalRange |-> <<1500, 3000>>, criticalLow |-> 500, criticalHigh |-> 6000, higherIsBetter |-> "null"],
      cortisol |-> [category |-> "Hormones", normalRange |-> <<600, 2300>>, optimalRange |-> <<1000, 1800>>, criticalLow |-> 300, criticalHigh |-> 3000, higherIsBetter |-> "null"],
      dheas |-> [category |-> "Hormones", normalRange |-> <<10000, 40000>>, optimalRange |-> <<15000, 35000>>, criticalLow |-> 5000, criticalHigh |-> 50000, higherIsBetter |-> "null"]
  ]

MarkerIds == DOMAIN BIOMARKER_DEFINITIONS

\* The category list without its last entry.
CATEGORIES_WithoutHormones == <<"Metabolic", "Cardiovascular", "Kidney", "Liver", "Thyroid", "Inflammation", "Nutrients", "Blood Count">>

CATEGORIES == <<"Metabolic", "Cardiovascular", "Kidney", "Liver", "Thyroid", "Inflammation", "Nutrients", "Blood Count", "Hormones">>

Statuses == {"optimal", "normal", "attention", "critical"}

\* A marker identifier the client catalog does not define (a record loaded
\* from the server may carry any biomarker_id).
UnknownMarker == "apoB"

----------------------------------------------------------------------------
(* Classifier                                                              *)

\* getStatus with exclusive critical bounds.
getStatus_ExclusiveCritical(value, markerId) ==
  IF markerId \notin MarkerIds THEN "normal"
  ELSE LET def == BIOMARKER_DEFINITIONS[markerId] IN
       IF value < def.criticalLow \/ value > def.criticalHigh THEN "critical"
       ELSE IF value >= def.optimalRange[1] /\ value <= def.optimalRange[2] THEN "optimal"
       ELSE IF value >= def.normalRange[1] /\ value <= def.normalRange[2] THEN "normal"
       ELSE "attention"

getStatus(value, markerId) ==
  IF markerId \notin MarkerIds THEN "normal"
  ELSE LET def == BIOMARKER_DEFINITIONS[markerId] IN
       IF value <= def.criticalLow \/ value >= def.criticalHigh THEN "critical"
       ELSE IF value >= def.optimalRange[1] /\ value <= def.optimalRange[2] THEN "optimal"
       ELSE IF value >= def.normalRange[1] /\ value <= def.normalRange[2] THEN "normal"
       ELSE "attention"

----------------------------------------------------------------------------
(* Array helpers: filter, stable sort by date, slice                       *)

Abs(x) == IF x < 0 THEN -x ELSE x

Min(a, b) == IF a <= b THEN a ELSE b

\* records.filter(r => r.markerId === id): a new array, input order kept.
filterByMarker(recs, id) == SelectSeq(recs, LAMBDA r : r.markerId = id)

\* sort((a, b) => new Date(a.date) - new Date(b.date)): stable, ascending.
RECURSIVE sortByDateAsc(_)
sortByDateAsc(s) ==
  IF s = <<>> THEN <<>>
  ELSE LET init == sortByDateAsc(SubSeq(s, 1, Len(s) - 1))
           r == s[Len(s)]
           k == Cardinality({i \in 1..Len(init) : init[i].date <= r.date})
       IN SubSeq(init, 1, k) \o <<r>> \o SubSeq(init, k + 1, Len(init))

\* sort((a, b) => new Date(b.date) - new Date(a.date)): stable, descending.
RECURSIVE sortByDateDesc(_)
sortByDateDesc(s) ==
  IF s = <<>> THEN <<>>
  ELSE LET init == sortByDateDesc(SubSeq(s, 1, Len(s) - 1))
           r == s[Len(s)]
           k == Cardinality({i \in 1..Len(init) : init[i].date >= r.date})
       IN SubSeq(init, 1, k) \o <<r>> \o SubSeq(init, k + 1, Len(init))

\* array.slice(-n)
sliceLast(s, n) == SubSeq(s, IF Len(s) > n THEN Len(s) - n + 1 ELSE 1, Len(s))

\* (num/den).toFixed(1) for num >= 0, den > 0, as a number of tenths.
toFixed1(num, den) == (20 * num + den) \div (2 * den)

----------------------------------------------------------------------------
(* Trend analyzer                                                          *)

TrendWindow == 3

TrendThreshold == 3

\* calculateTrend without the sort: the window is taken in input order.
calculateTrend_NoSort(recs) ==
  IF Len(recs) < 2 THEN [direction |-> "stable", change |-> 0]
  ELSE LET recent == sliceLast(recs, TrendWindow)
           first == recent[1].value
           last == recent[Len(recent)].value
           num == IF first # 0 THEN (last - first) * 100 ELSE 0
           den == IF first # 0 THEN first ELSE 1
       IN IF Abs(num) < TrendThreshold * Abs(den)
          THEN [direction |-> "stable", change |-> 0]
          ELSE [direction |-> IF (num > 0 /\ den > 0) \/ (num < 0 /\ den < 0) THEN "up" ELSE "down",
                change |-> toFixed1(Abs(num), Abs(den))]

\* calculateTrend with an inclusive threshold: a change of exactly 3% is stable.
calculateTrend_InclusiveThreshold(recs) ==
  IF Len(recs) < 2 THEN [direction |-> "stable", change |-> 0]
  ELSE LET sorted == sortByDateAsc(recs)
           recent == sliceLast(sorted, TrendWindow)
           first == recent[1].value
           last == recent[Len(recent)].value
           num == IF first # 0 THEN (last - first) * 100 ELSE 0
           den == IF first # 0 THEN first ELSE 1
       IN IF Abs(num) <= TrendThreshold * Abs(den)
          THEN [direction |-> "stable", change |-> 0]
          ELSE [direction |-> IF (num > 0 /\ den > 0) \/ (num < 0 /\ den < 0) THEN "up" ELSE "down",
                change |-> toFixed1(Abs(num), Abs(den))]

\* calculateTrend without the first !== 0 test: a window that opens with 0
\* divides by it, giving an infinite change (up or down) or, for 0 / 0, a
\* change that is not a number, whose comparisons are all false (down).
calculateTrend_NoZeroGuard(recs) ==
  IF Len(recs) < 2 THEN [direction |-> "stable", change |-> 0]
  ELSE LET sorted == sortByDateAsc(recs)
           recent == sliceLast(sorted, TrendWindow)
           first == recent[1].value
           last == recent[Len(recent)].value
           num == (last - first) * 100
           den == first
       IN IF den = 0
          THEN [direction |-> IF num > 0 THEN "up" ELSE "down", change |-> -1]
          ELSE IF Abs(num) < TrendThreshold * Abs(den)
          THEN [direction |-> "stable", change |-> 0]
          ELSE [direction |-> IF (num > 0 /\ den > 0) \/ (num < 0 /\ den < 0) THEN "up" ELSE "down",
                change |-> toFixed1(Abs(num), Abs(den))]

\* change = (last - first) / first * 100 is kept as the fraction
\* (last - first) * 100 / first; the returned change is in tenths of a percent.
calculateTrend(recs) ==
  IF Len(recs) < 2 THEN [direction |-> "stable", change |-> 0]
  ELSE LET sorted == sortByDateAsc(recs)
           recent == sliceLast(sorted, TrendWindow)
           first == recent[1].value
           last == recent[Len(recent)].value
           num == IF first # 0 THEN (last - first) * 100 ELSE 0
           den == IF first # 0 THEN first ELSE 1
       IN IF Abs(num) < TrendThreshold * Abs(den)
          THEN [direction |-> "stable", change |-> 0]
          ELSE [direction |-> IF (num > 0 /\ den > 0) \/ (num < 0 /\ den < 0) THEN "up" ELSE "down",
                change |-> toFixed1(Abs(num), Abs(den))]

\* The divisors of the divisions calculateTrend performs: first, when the
\* conditional of the change takes the dividing branch.
trendDivisors(recs) ==
  IF Len(recs) < 2 THEN {}
  ELSE LET recent == sliceLast(sortByDateAsc(recs), TrendWindow)
           first == recent[1].value
       IN IF first # 0 THEN {first} ELSE {}

----------------------------------------------------------------------------
(* Pattern detector                                                        *)

\* latestValues with the records sorted by date ascending: the head is the
\* oldest observation.
latestValues_Oldest(recs) ==
  [id \in {m \in MarkerIds : filterByMarker(recs, m) # <<>>} |->
      sortByDateAsc(filterByMarker(recs, id))[1].value]

\* The `latest` object: one entry per catalog marker that has records, the
\* value at the head of that marker's records sorted by date descending.
latestValues(recs) ==
  [id \in {m \in MarkerIds : filterByMarker(recs, m) # <<>>} |->
      sortByDateDesc(filterByMarker(recs, id))[1].value]

\* JavaScript truthiness of latest[m]: undefined and 0 are falsy.
truthy(latest, m) == m \in DOMAIN latest /\ latest[m] # 0

\* latest[m] > t and latest[m] < t; a comparison with undefined is false.
gt(latest, m, t) == m \in DOMAIN latest /\ latest[m] > t

lt(latest, m, t) == m \in DOMAIN latest /\ latest[m] < t

metabolicFlags(latest) ==
  Cardinality({f \in {"glucose", "triglycerides", "hdl", "hba1c"} :
     \/ f = "glucose" /\ gt(latest, "glucose", 10000)
     \/ f = "triglycerides" /\ gt(latest, "triglycerides", 15000)
     \/ f = "hdl" /\ truthy(latest, "hdl") /\ lt(latest, "hdl", 4000)
     \/ f = "hba1c" /\ gt(latest, "hba1c", 560)})

\* [..].filter(m => latest[m])
markersWithValue(latest, ms) == SelectSeq(ms, LAMBDA m : truthy(latest, m))

metabolicPattern(latest) ==
  IF metabolicFlags(latest) >= 3
  THEN <<[type |-> "metabolic_syndrome", severity |-> "attention",
          flags |-> metabolicFlags(latest),
          markers |-> markersWithValue(latest, <<"glucose", "triglycerides", "hdl", "hba1c">>)]>>
  ELSE <<>>

ironPattern(latest) ==
  IF truthy(latest, "hemoglobin") /\ lt(latest, "hemoglobin", 1200)
     /\ truthy(latest, "ferritin") /\ lt(latest, "ferritin", 3000)
  THEN <<[type |-> "iron_deficiency", severity |-> "attention", flags |-> 0,
          markers |-> <<"hemoglobin", "ferritin">>]>>
  ELSE <<>>

thyroidPattern(latest) ==
  IF truthy(latest, "tsh") /\ (gt(latest, "tsh", 400) \/ lt(latest, "tsh", 40))
  THEN <<[type |-> "thyroid",
          severity |-> IF gt(latest, "tsh", 1000) \/ lt(latest, "tsh", 10)
                       THEN "critical" ELSE "attention",
          flags |-> 0,
          markers |-> markersWithValue(latest, <<"tsh", "freeT4", "freeT3">>)]>>
  ELSE <<>>

\* kidneyPattern reading an absent egfr as 0, which is below 60.
kidneyPattern_AbsentIsZero(latest) ==
  IF gt(latest, "creatinine", 130) /\ ("egfr" \notin DOMAIN latest \/ lt(latest, "egfr", 6000))
  THEN <<[type |-> "kidney", severity |-> "attention", flags |-> 0,
          markers |-> markersWithValue(latest, <<"creatinine", "egfr", "bun">>)]>>
  ELSE <<>>

kidneyPattern(latest) ==
  IF gt(latest, "creatinine", 130) /\ truthy(latest, "egfr") /\ lt(latest, "egfr", 6000)
  THEN <<[type |-> "kidney", severity |-> "attention", flags |-> 0,
          markers |-> markersWithValue(latest, <<"creatinine", "egfr", "bun">>)]>>
  ELSE <<>>

detectPatterns(recs) ==
  LET latest == latestValues(recs)
  IN metabolicPattern(latest) \o ironPattern(latest)
       \o thyroidPattern(latest) \o kidneyPattern(latest)

----------------------------------------------------------------------------
(* Goal tracker                                                            *)

\* Progress is the exact fraction num/den of a percentage.
Zero == [num |-> 0, den |-> 1]

\* goalProgress reading the baseline from the last element of the sorted
\* records (the earliest observation) and without the direction check.
goalProgress_EarliestNoDirection(g, recs) ==
  LET markerRecords == sortByDateDesc(filterByMarker(recs, g.markerId))
  IN IF markerRecords # <<>> /\ g.targetValue # 0
     THEN LET latest == markerRecords[1]
              baseline == IF Len(markerRecords) > 1 THEN markerRecords[Len(markerRecords)].value
                          ELSE latest.value
              current == latest.value
              target == g.targetValue
              totalChange == Abs(target - baseline)
              actualChange == Abs(current - baseline)
          IN IF totalChange > 0
             THEN (IF actualChange >= totalChange THEN [num |-> 100, den |-> 1]
                   ELSE [num |-> actualChange * 100, den |-> totalChange])
             ELSE Zero
     ELSE Zero

\* markerRecords is sorted in place by date descending before latest and
\* baseline are read from it.
goalProgress(g, recs) ==
  LET markerRecords == sortByDateDesc(filterByMarker(recs, g.markerId))
  IN IF markerRecords # <<>> /\ g.targetValue # 0
     THEN LET latest == markerRecords[1]
              baseline == IF Len(markerRecords) > 1 THEN markerRecords[1].value ELSE latest.value
              current == latest.value
              target == g.targetValue
              totalChange == Abs(target - baseline)
              actualChange == Abs(current - baseline)
              progress == IF totalChange > 0
                          THEN (IF actualChange >= totalChange THEN [num |-> 100, den |-> 1]
                                ELSE [num |-> actualChange * 100, den |-> totalChange])
                          ELSE Zero
          IN IF (target < baseline /\ current > baseline) \/ (target > baseline /\ current < baseline)
             THEN Zero
             ELSE progress
     ELSE Zero

\* The divisors of the divisions the progress computation performs:
\* totalChange, when the conditional takes the dividing branch.
goalDivisors(g, recs) ==
  LET markerRecords == sortByDateDesc(filterByMarker(recs, g.markerId))
  IN IF markerRecords # <<>> /\ g.targetValue # 0
     THEN LET baseline == markerRecords[1].value
              totalChange == Abs(g.targetValue - baseline)
          IN IF totalChange > 0 THEN {totalChange} ELSE {}
     ELSE {}

GoalsTracker(gs, recs) == [i \in 1..Len(gs) |-> goalProgress(gs[i], recs)]

----------------------------------------------------------------------------
(* Timeline: the lab events                                                *)

TimelineSlice == 15

\* records.slice(-15).map(...) then filter(e => e.date) and the sort by date
\* descending.  The other event kinds carry fixed statuses and never call
\* getStatus.
TimelineView(recs) ==
  LET shown == sliceLast(recs, TimelineSlice)
      events == [i \in 1..Len(shown) |->
                   [type |-> "lab", date |-> shown[i].date, markerId |-> shown[i].markerId,
                    status |-> getStatus(shown[i].value, shown[i].markerId)]]
  IN sortByDateDesc(SelectSeq(events, LAMBDA e : e.date # 0))

----------------------------------------------------------------------------
(* Bounded inputs                                                          *)

MaxDate == 3

Dates == 1..MaxDate

Record(m, v, d) == [markerId |-> m, value |-> v, date |-> d]

NoCall == [fn |-> "none"]

NoResult == "none"

----------------------------------------------------------------------------
(* Classifier and timeline: every catalog marker at and around each of its *)
(* six range bounds, and an unknown marker.                                *)

MaxTimelineLen == 2

StatusValues(m) ==
  IF m \in MarkerIds
  THEN LET def == BIOMARKER_DEFINITIONS[m]
           bounds == {def.criticalLow, def.criticalHigh, def.normalRange[1], def.normalRange[2],
                      def.optimalRange[1], def.optimalRange[2]}
       IN UNION {{b - 1, b, b + 1} : b \in bounds}
  ELSE {0, 5000}

TimelineRecords == {Record(UnknownMarker, 5000, 1), Record("glucose", 13000, 2), Record("hdl", 6500, 3)}

InitStatus ==
  /\ \E k \in 0..MaxTimelineLen : records \in [1..k -> TimelineRecords]
  /\ goals = <<>>
  /\ call = NoCall
  /\ result = NoResult
  /\ AppAtRest

GetStatus ==
  \E m \in MarkerIds \cup {UnknownMarker} : \E v \in StatusValues(m) :
    /\ call' = [fn |-> "getStatus", value |-> v, markerId |-> m]
    /\ result' = getStatus(v, m)
    /\ UNCHANGED <<records, goals, appVars>>

RenderTimeline ==
  /\ call' = [fn |-> "TimelineView"]
  /\ result' = TimelineView(records)
  /\ UNCHANGED <<records, goals, appVars>>

NextStatus == GetStatus \/ RenderTimeline

SpecStatus == InitStatus /\ [][NextStatus]_vars

\* C1: for a catalog marker, getStatus returns exactly one of the four
\* statuses, by the precedence critical (value <= criticalLow or value >=
\* criticalHigh, both inclusive), else optimal (inside the inclusive optimal
\* range), else normal (inside the inclusive normal range), else attention.
C1_StatusPrecedence ==
  (call.fn = "getStatus" /\ call.markerId \in MarkerIds) =>
    LET def == BIOMARKER_DEFINITIONS[call.markerId]
        v == call.value
        isCritical == v <= def.criticalLow \/ v >= def.criticalHigh
        inOptimal == def.optimalRange[1] <= v /\ v <= def.optimalRange[2]
        inNormal == def.normalRange[1] <= v /\ v <= def.normalRange[2]
    IN /\ result \in Statuses
       /\ (result = "critical") <=> isCritical
       /\ (result = "optimal") <=> (~isCritical /\ inOptimal)
       /\ (result = "normal") <=> (~isCritical /\ ~inOptimal /\ inNormal)
       /\ (result = "attention") <=> (~isCritical /\ ~inOptimal /\ ~inNormal)

\* A value exactly at criticalHigh of a catalog marker has been classified.
C1_Witness ==
  /\ call.fn = "getStatus"
  /\ call.markerId \in MarkerIds
  /\ call.value = BIOMARKER_DEFINITIONS[call.markerId].criticalHigh
  /\ result = "critical"

\* C2: a marker identifier without a catalog entry is never classified into
\* one of the four status tiers, neither by getStatus itself nor in the
\* timeline's lab events.
C2_UnknownMarkerUnclassifiable ==
  /\ (call.fn = "getStatus" /\ call.markerId \notin MarkerIds) => result \notin Statuses
  /\ call.fn = "TimelineView" =>
       \A i \in 1..Len(result) :
          result[i].markerId \notin MarkerIds => result[i].status \notin Statuses

----------------------------------------------------------------------------
(* Trend analyzer: every history of one marker up to MaxTrendLen           *)
(* observations, in every input order, with equal dates allowed.  The      *)
(* values give changes of 0%, about 2.9%, exactly 3%, about 5.7% and 6%,   *)
(* and a window that starts at 0.                                          *)

MaxTrendLen == 4

TrendValues == {0, 10000, 10300, 10600}

TrendRecords == {Record("glucose", v, d) : v \in TrendValues, d \in Dates}

InitTrend ==
  /\ \E k \in 0..MaxTrendLen : records \in [1..k -> TrendRecords]
  /\ goals = <<>>
  /\ call = NoCall
  /\ result = NoResult
  /\ AppAtRest

CalculateTrend ==
  /\ call' = [fn |-> "calculateTrend"]
  /\ result' = calculateTrend(records)
  /\ UNCHANGED <<records, goals, appVars>>

NextTrend == CalculateTrend

SpecTrend == InitTrend /\ [][NextTrend]_vars

\* The number of observations that come after observation i by date, input
\* order deciding between equal dates.
NewerCount(recs, i) ==
  Cardinality({j \in 1..Len(recs) :
     recs[j].date > recs[i].date \/ (recs[j].date = recs[i].date /\ j > i)})

\* The observation that has exactly k observations after it.
KthNewest(recs, k) == recs[CHOOSE i \in 1..Len(recs) : NewerCount(recs, i) = k]

\* The value that opens and the value that closes the trailing window of the
\* (at most) 3 most recent observations.
WindowFirst(recs) == KthNewest(recs, Min(Len(recs), 3) - 1).value

WindowLast(recs) == KthNewest(recs, 0).value

\* C4: with at least 2 observations, in any input order, the trend is decided
\* by the first and the last value of the window of the (at most) 3 most
\* recent observations alone: a trend that is not stable is up when
\* (last - first) / first * 100 > 0 and down when it is < 0, and its magnitude
\* is |change| rounded to one decimal.
C4_TrendFromWindowEnds ==
  (call.fn = "calculateTrend" /\ Len(records) >= 2) =>
    LET first == WindowFirst(records)
        last == WindowLast(records)
    IN IF first = 0 \/ Abs(last - first) * 100 < 3 * Abs(first)
       THEN result.direction = "stable"
       ELSE /\ result.direction = "up" <=> (last - first) * first > 0
            /\ result.direction = "down" <=> (last - first) * first < 0
            /\ 2 * Abs(first) * result.change <= 2000 * Abs(last - first) + Abs(first)
            /\ 2000 * Abs(last - first) + Abs(first) < 2 * Abs(first) * (result.change + 1)

\* Four observations given newest first, the oldest outside the window, and
\* the window 100, 100, 106 reported as up 6.0.
C4_Witness ==
  /\ call.fn = "calculateTrend"
  /\ Len(records) = 4
  /\ records[1].date > records[2].date
  /\ WindowFirst(records) = 10000
  /\ WindowLast(records) = 10600
  /\ \E i \in 1..4 : records[i].value = 0
  /\ result = [direction |-> "up", change |-> 60]

\* C5: a trend is stable exactly when |change| < 3 (exactly 3% is up or down);
\* a stable trend has magnitude 0 and any other trend a magnitude of at
\* least 3.
C5_StableBelowThreshold ==
  call.fn = "calculateTrend" =>
    /\ result.direction \in {"stable", "up", "down"}
    /\ result.direction = "stable" => result.change = 0
    /\ result.direction # "stable" => result.change >= 30
    /\ Len(records) >= 2 =>
         LET first == WindowFirst(records)
             last == WindowLast(records)
         IN result.direction = "stable"
              <=> (first = 0 \/ Abs(last - first) * 100 < 3 * Abs(first))

\* A change of exactly 3% has been reported as up with magnitude 3.0.
C5_Witness ==
  /\ call.fn = "calculateTrend"
  /\ Len(records) >= 2
  /\ WindowFirst(records) = 10000
  /\ WindowLast(records) = 10300
  /\ result = [direction |-> "up", change |-> 30]

----------------------------------------------------------------------------
(* Goal tracker: one goal on a marker with every history of up to          *)
(* MaxGoalLen observations, in every input order.                          *)

MaxGoalLen == 3

GoalValues == {7000, 8500, 10000, 11000}

GoalTargets == {0, 7000, 10000, 12000}

GoalRecords == {Record("ldl", v, d) : v \in GoalValues, d \in Dates}

InitGoal ==
  /\ \E k \in 0..MaxGoalLen : records \in [1..k -> GoalRecords]
  /\ \E t \in GoalTargets : goals = <<[markerId |-> "ldl", targetValue |-> t]>>
  /\ call = NoCall
  /\ result = NoResult
  /\ AppAtRest

RenderGoals ==
  /\ call' = [fn |-> "GoalsTracker"]
  /\ result' = GoalsTracker(goals, records)
  /\ UNCHANGED <<records, goals, appVars>>

NextGoal == RenderGoals

SpecGoal == InitGoal /\ [][NextGoal]_vars

\* min(100, |current - baseline| / |target - baseline| * 100) as a fraction.
ExpectedProgress(baseline, current, target) ==
  IF Abs(current - baseline) >= Abs(target - baseline)
  THEN [num |-> 100, den |-> 1]
  ELSE [num |-> Abs(current - baseline) * 100, den |-> Abs(target - baseline)]

SameFraction(p, q) == p.num * q.den = q.num * p.den

\* C3: for a goal on a marker with at least 2 observations, progress is
\* min(100, |current - baseline| / |target - baseline| * 100) with baseline
\* the value of the earliest and current the value of the latest observation
\* by date, when the target differs from the baseline and the movement is
\* toward the target (100 then 85 with target 70 gives 50).
C3_GoalProgressFromEarliest ==
  call.fn = "GoalsTracker" =>
    \A i \in 1..Len(goals) :
      LET recs == filterByMarker(records, goals[i].markerId)
          target == goals[i].targetValue
          earliest == {r \in {recs[j] : j \in 1..Len(recs)} :
                         \A j \in 1..Len(recs) : r.date <= recs[j].date}
          newest == {r \in {recs[j] : j \in 1..Len(recs)} :
                         \A j \in 1..Len(recs) : r.date >= recs[j].date}
      IN Len(recs) >= 2 =>
           \E e \in earliest : \E l \in newest :
              (/\ target # e.value
               /\ (target < e.value => l.value <= e.value)
               /\ (target > e.value => l.value >= e.value))
              => SameFraction(result[i], ExpectedProgress(e.value, l.value, target))

----------------------------------------------------------------------------
(* Pattern detector: a base collection that triggers any chosen subset of   *)
(* the four rules, with up to MaxExtra further observations of the rule     *)
(* markers placed before or after it (older, same-day or newer; zero,       *)
(* below, at or above a threshold).                                         *)

MaxExtra == 1

\* An observation of the base collection, dated on the middle day.
BaseRecord(m, v) == Record(m, v, 2)

MetabolicScenarios ==
  {<<>>, <<BaseRecord("glucose", 11000), BaseRecord("triglycerides", 16000),
           BaseRecord("hdl", 3500), BaseRecord("hba1c", 500)>>}

IronScenarios == {<<>>, <<BaseRecord("hemoglobin", 1100), BaseRecord("ferritin", 2000)>>}

ThyroidScenarios == {<<>>, <<BaseRecord("tsh", 500)>>}

KidneyScenarios == {<<>>, <<BaseRecord("creatinine", 150), BaseRecord("egfr", 5500)>>}

PatternBases ==
  {m \o i \o t \o k : m \in MetabolicScenarios, i \in IronScenarios,
                      t \in ThyroidScenarios, k \in KidneyScenarios}

PatternValues ==
  [glucose |-> {0, 10000, 11000}, triglycerides |-> {0, 16000}, hdl |-> {0, 3500, 4000},
   hba1c |-> {0, 570}, hemoglobin |-> {0, 1100, 1200}, ferritin |-> {0, 2000},
   tsh |-> {0, 5, 30, 250, 1100}, freeT4 |-> {0, 120}, freeT3 |-> {300},
   creatinine |-> {130, 150}, egfr |-> {0, 5500, 6000}, bun |-> {0, 1500}]

ExtraRecords ==
  UNION {{Record(m, v, d) : v \in PatternValues[m], d \in Dates} : m \in DOMAIN PatternValues}

InitPatterns ==
  /\ \E base \in PatternBases : \E k \in 0..MaxExtra : \E extra \in [1..k -> ExtraRecords] :
        records \in {extra \o base, base \o extra}
  /\ goals = <<>>
  /\ call = NoCall
  /\ result = NoResult
  /\ AppAtRest

DetectPatterns ==
  /\ call' = [fn |-> "detectPatterns"]
  /\ result' = detectPatterns(records)
  /\ UNCHANGED <<records, goals, appVars>>

NextPatterns == DetectPatterns

SpecPatterns == InitPatterns /\ [][NextPatterns]_vars

\* Whether a marker has at least one observation.
HasData(recs, m) == \E i \in 1..Len(recs) : recs[i].markerId = m

\* The value of a marker's most recent observation by date, the one given
\* first deciding between equal dates.
LatestValue(recs, m) ==
  LET idx == {i \in 1..Len(recs) : recs[i].markerId = m}
      best == CHOOSE i \in idx : \A j \in idx :
                 recs[j].date < recs[i].date \/ (recs[j].date = recs[i].date /\ j >= i)
  IN recs[best].value

LatestMap(recs) == [m \in {x \in MarkerIds : HasData(recs, x)} |-> LatestValue(recs, m)]

\* The markers of a list that have data, in list order.
WithData(recs, ms) == SelectSeq(ms, LAMBDA m : HasData(recs, m))

Emitted(type) == {result[i] : i \in {j \in 1..Len(result) : result[j].type = type}}

PatternTypes == {"metabolic_syndrome", "iron_deficiency", "thyroid", "kidney"}

TypesOf(patterns) == {patterns[i].type : i \in 1..Len(patterns)}

\* C6: the metabolic pattern (attention) is emitted exactly when at least 3
\* of {latest glucose > 100, latest triglycerides > 150, hdl has data and
\* latest hdl < 40, latest hba1c > 5.6} hold, a marker having data whatever
\* its value (0 included); its markers are those of {glucose, triglycerides,
\* hdl, hba1c} that have data.
C6_MetabolicPattern ==
  call.fn = "detectPatterns" =>
    LET flags == Cardinality({m \in {"glucose", "triglycerides", "hdl", "hba1c"} :
                   /\ HasData(records, m)
                   /\ \/ m = "glucose" /\ LatestValue(records, m) > 10000
                      \/ m = "triglycerides" /\ LatestValue(records, m) > 15000
                      \/ m = "hdl" /\ LatestValue(records, m) < 4000
                      \/ m = "hba1c" /\ LatestValue(records, m) > 560})
    IN /\ Emitted("metabolic_syndrome") # {} <=> flags >= 3
       /\ \A p \in Emitted("metabolic_syndrome") :
             /\ p.severity = "attention"
             /\ p.markers = WithData(records, <<"glucose", "triglycerides", "hdl", "hba1c">>)

\* C7: the thyroid pattern is emitted exactly when tsh has data and its
\* latest value is > 4 or < 0.4 (0 included); it is critical exactly when the
\* latest tsh is > 10 or < 0.1, else attention; its markers are those of
\* {tsh, freeT4, freeT3} that have data.
C7_ThyroidPattern ==
  call.fn = "detectPatterns" =>
    /\ Emitted("thyroid") # {}
         <=> (HasData(records, "tsh")
              /\ (LatestValue(records, "tsh") > 400 \/ LatestValue(records, "tsh") < 40))
    /\ \A p \in Emitted("thyroid") :
          /\ p.severity = IF LatestValue(records, "tsh") > 1000 \/ LatestValue(records, "tsh") < 10
                          THEN "critical" ELSE "attention"
          /\ p.markers = WithData(records, <<"tsh", "freeT4", "freeT3">>)

\* C8: the iron-deficiency pattern (attention, markers hemoglobin and
\* ferritin) is emitted exactly when hemoglobin has data with latest value
\* < 12 and ferritin has data with latest value < 30.
C8_IronPattern ==
  call.fn = "detectPatterns" =>
    /\ Emitted("iron_deficiency") # {}
         <=> (/\ HasData(records, "hemoglobin") /\ LatestValue(records, "hemoglobin") < 1200
              /\ HasData(records, "ferritin") /\ LatestValue(records, "ferritin") < 3000)
    /\ \A p \in Emitted("iron_deficiency") :
          p.severity = "attention" /\ p.markers = <<"hemoglobin", "ferritin">>

\* C9: the kidney pattern (attention) is emitted exactly when the latest
\* creatinine is > 1.3 and egfr has data with latest value < 60; its markers
\* are those of {creatinine, egfr, bun} that have data.
C9_KidneyPattern ==
  call.fn = "detectPatterns" =>
    /\ Emitted("kidney") # {}
         <=> (/\ HasData(records, "creatinine") /\ LatestValue(records, "creatinine") > 130
              /\ HasData(records, "egfr") /\ LatestValue(records, "egfr") < 6000)
    /\ \A p \in Emitted("kidney") :
          p.severity = "attention" /\ p.markers = WithData(records, <<"creatinine", "egfr", "bun">>)

\* The sets of pattern types the base collections make detectPatterns emit.
EmittableSubsets == {TypesOf(detectPatterns(b)) : b \in PatternBases}

\* C10: the pattern list depends on the records only through each marker's
\* latest value by date: it is the four rules, each decided on its own and
\* each contributing at most one pattern, applied to the map of latest
\* values, whatever the older observations and the input order; every subset
\* of the four patterns is emitted by some collection.
C10_PatternsFromLatestOnly ==
  /\ call.fn = "detectPatterns" =>
       LET latest == LatestMap(records)
       IN /\ result = metabolicPattern(latest) \o ironPattern(latest)
                        \o thyroidPattern(latest) \o kidneyPattern(latest)
          /\ \A t \in PatternTypes : Cardinality({i \in 1..Len(result) : result[i].type = t}) <= 1
          /\ TypesOf(result) \subseteq PatternTypes
  /\ EmittableSubsets = SUBSET PatternTypes

\* All four patterns are emitted from a collection that also holds an older,
\* normal tsh observation given before the newer one.
C10_Witness ==
  /\ call.fn = "detectPatterns"
  /\ TypesOf(result) = PatternTypes
  /\ records[1] = Record("tsh", 250, 1)
  /\ LatestValue(records, "tsh") = 500

----------------------------------------------------------------------------
(* Score aggregator                                                        *)

\* const scores = { optimal: 100, normal: 80, attention: 50, critical: 20 };
\* scores[status] || 50
statusPoints(status) ==
  CASE status = "optimal" -> 100
    [] status = "normal" -> 80
    [] status = "attention" -> 50
    [] status = "critical" -> 20
    [] OTHER -> 50

\* Math.round(num / den) for num >= 0, den > 0: halves round up.
mathRound(num, den) == (2 * num + den) \div (2 * den)

\* The catalog markers of a category that have at least one record.
markersWithRecords(category, recs) ==
  {id \in MarkerIds : BIOMARKER_DEFINITIONS[id].category = category
                       /\ filterByMarker(recs, id) # <<>>}

\* The points of a marker: the status of the head of its records sorted by
\* date descending.
markerPoints(id, recs) ==
  LET latest == sortByDateDesc(filterByMarker(recs, id))[1]
  IN statusPoints(getStatus(latest.value, id))

RECURSIVE sumPoints(_, _)
sumPoints(ids, recs) ==
  IF ids = {} THEN 0
  ELSE LET id == CHOOSE x \in ids : TRUE
       IN markerPoints(id, recs) + sumPoints(ids \ {id}, recs)

\* categoryScore with the total not divided by the count.
categoryScore_Sum(category, recs) ==
  LET ids == markersWithRecords(category, recs)
      totalScore == sumPoints(ids, recs)
      count == Cardinality(ids)
  IN [category |-> category,
      score |-> IF count > 0 THEN <<totalScore>> ELSE <<>>,
      count |-> count]

\* categoryScore dividing by the number of markers the catalog has in the
\* category instead of the number of markers with data.
categoryScore_AllMarkers(category, recs) ==
  LET ids == markersWithRecords(category, recs)
      totalScore == sumPoints(ids, recs)
      count == Cardinality(ids)
      all == Cardinality({id \in MarkerIds : BIOMARKER_DEFINITIONS[id].category = category})
  IN [category |-> category,
      score |-> IF count > 0 THEN <<mathRound(totalScore, all)>> ELSE <<>>,
      count |-> count]

\* One element of the CATEGORIES.map(...) of HealthScoreDashboard; a null
\* score is the empty sequence, a number n is <<n>>.
categoryScore(category, recs) ==
  LET ids == markersWithRecords(category, recs)
      totalScore == sumPoints(ids, recs)
      count == Cardinality(ids)
  IN [category |-> category,
      score |-> IF count > 0 THEN <<mathRound(totalScore, count)>> ELSE <<>>,
      count |-> count]

RECURSIVE sumScores(_)
sumScores(cs) == IF cs = <<>> THEN 0 ELSE cs[1].score[1] + sumScores(Tail(cs))

\* HealthScoreDashboard keeping the categories whose score is null.
HealthScoreDashboard_NoFilter(recs) ==
  LET categoryScores == [i \in 1..Len(CATEGORIES) |->
                           LET c == categoryScore(CATEGORIES[i], recs)
                           IN [c EXCEPT !.score = IF c.score = <<>> THEN <<0>> ELSE c.score]]
  IN [categoryScores |-> categoryScores,
      overallScore |-> IF Len(categoryScores) > 0
                       THEN <<mathRound(sumScores(categoryScores), Len(categoryScores))>>
                       ELSE <<>>]

HealthScoreDashboard(recs) ==
  LET categoryScores == SelectSeq([i \in 1..Len(CATEGORIES) |-> categoryScore(CATEGORIES[i], recs)],
                                  LAMBDA c : c.score # <<>>)
  IN [categoryScores |-> categoryScores,
      overallScore |-> IF Len(categoryScores) > 0
                       THEN <<mathRound(sumScores(categoryScores), Len(categoryScores))>>
                       ELSE <<>>]

\* category.substring(0, 8)
substring8(category) ==
  CASE category = "Metabolic" -> "Metaboli"
    [] category = "Cardiovascular" -> "Cardiova"
    [] category = "Inflammation" -> "Inflamma"
    [] category = "Nutrients" -> "Nutrient"
    [] category = "Blood Count" -> "Blood Co"
    [] OTHER -> category

RadarMinimum == 3

\* HealthRadar: the radar data, or nothing rendered with fewer than 3
\* categories.
HealthRadar(recs) ==
  LET radarData ==
        SelectSeq([i \in 1..Len(CATEGORIES) |->
                     LET c == categoryScore(CATEGORIES[i], recs)
                     IN [category |-> substring8(CATEGORIES[i]),
                         score |-> IF c.count > 0 THEN c.score[1] ELSE 0,
                         fullMark |-> 100]],
                  LAMBDA d : d.score > 0)
  IN IF Len(radarData) < RadarMinimum
     THEN [rendered |-> FALSE, radarData |-> <<>>]
     ELSE [rendered |-> TRUE, radarData |-> radarData]

----------------------------------------------------------------------------
(* Score aggregator: a base collection giving each of five markers of      *)
(* three categories no data or a value of a chosen status, with up to      *)
(* MaxExtra older, same-day or newer observations before or after it.      *)

Option(m, values) == {<<>>} \cup {<<BaseRecord(m, v)>> : v \in values}

ScoreBases ==
  {g \o h \o i \o t \o c :
     g \in Option("glucose", {8000, 9500, 11000, 13000}),
     h \in Option("hba1c", {500, 550}),
     i \in Option("insulin", {3500}),
     t \in Option("tsh", {200, 1100}),
     c \in Option("crp", {0, 50})}

ScoreExtras ==
  {Record(m, v, d) : m \in {"glucose"}, v \in {8000, 13000}, d \in Dates}
    \cup {Record(m, v, d) : m \in {"tsh"}, v \in {1100}, d \in Dates}

InitScore ==
  /\ \E base \in ScoreBases : \E k \in 0..MaxExtra : \E extra \in [1..k -> ScoreExtras] :
        records \in {extra \o base, base \o extra}
  /\ goals = <<>>
  /\ call = NoCall
  /\ result = NoResult
  /\ AppAtRest

RenderScores ==
  /\ call' = [fn |-> "HealthScoreDashboard"]
  /\ result' = HealthScoreDashboard(records)
  /\ UNCHANGED <<records, goals, appVars>>

RenderRadar ==
  /\ call' = [fn |-> "HealthRadar"]
  /\ result' = HealthRadar(records)
  /\ UNCHANGED <<records, goals, appVars>>

NextScore == RenderScores \/ RenderRadar

SpecScore == InitScore /\ [][NextScore]_vars

\* The markers of a category that have at least one observation.
CategoryMarkersWithData(recs, category) ==
  {m \in MarkerIds : BIOMARKER_DEFINITIONS[m].category = category /\ HasData(recs, m)}

\* optimal=100, normal=80, attention=50, critical=20 for the status of the
\* most recent observation of a marker.
LatestPoints(recs, m) ==
  LET status == getStatus(LatestValue(recs, m), m)
  IN IF status = "optimal" THEN 100
     ELSE IF status = "normal" THEN 80
     ELSE IF status = "attention" THEN 50
     ELSE 20

RECURSIVE PointsTotal(_, _)
PointsTotal(recs, ms) ==
  IF ms = {} THEN 0
  ELSE LET m == CHOOSE x \in ms : TRUE
       IN LatestPoints(recs, m) + PointsTotal(recs, ms \ {m})

\* The categories that have a marker with data, in CATEGORIES order.
PresentCategories(recs) ==
  SelectSeq(CATEGORIES, LAMBDA c : CategoryMarkersWithData(recs, c) # {})

\* n is num/den rounded to the nearest integer, halves up (num >= 0, den > 0).
IsRounded(n, num, den) == 2 * den * n <= 2 * num + den /\ 2 * num + den < 2 * den * (n + 1)

\* C11 as stated: every category with data is scored with exactly the
\* average of the points of its markers that have data, markerCount being
\* their number.
C11_CategoryScoreIsAverage ==
  call.fn = "HealthScoreDashboard" =>
    \A c \in {CATEGORIES[i] : i \in 1..Len(CATEGORIES)} :
      LET ms == CategoryMarkersWithData(records, c)
          entries == {j \in 1..Len(result.categoryScores) : result.categoryScores[j].category = c}
      IN ms # {} =>
           /\ Cardinality(entries) = 1
           /\ \A j \in entries :
                /\ result.categoryScores[j].count = Cardinality(ms)
                /\ result.categoryScores[j].score[1] * Cardinality(ms) = PointsTotal(records, ms)

\* C11 amended: every category with data is scored with the average of the
\* points of its markers that have data rounded to the nearest integer
\* (halves up), markerCount being their number.
C11_CategoryScoreIsRoundedAverage ==
  call.fn = "HealthScoreDashboard" =>
    \A c \in {CATEGORIES[i] : i \in 1..Len(CATEGORIES)} :
      LET ms == CategoryMarkersWithData(records, c)
          entries == {j \in 1..Len(result.categoryScores) : result.categoryScores[j].category = c}
      IN ms # {} =>
           /\ Cardinality(entries) = 1
           /\ \A j \in entries :
                /\ result.categoryScores[j].count = Cardinality(ms)
                /\ IsRounded(result.categoryScores[j].score[1],
                             PointsTotal(records, ms), Cardinality(ms))

\* Metabolic scored from three markers whose points do not average to an
\* integer, the glucose status coming from a newer observation.
C11_Witness ==
  /\ call.fn = "HealthScoreDashboard"
  /\ Len(records) > 3
  /\ \E j \in 1..Len(result.categoryScores) :
        /\ result.categoryScores[j].category = "Metabolic"
        /\ result.categoryScores[j].count = 3
        /\ PointsTotal(records, CategoryMarkersWithData(records, "Metabolic")) = 200
        /\ result.categoryScores[j].score = <<67>>

\* C12 as stated: the score list holds exactly the categories with data, the
\* overall score is exactly the mean of their scores, and there is no overall
\* score when no category has data.
C12_OverallIsMean ==
  call.fn = "HealthScoreDashboard" =>
    LET cs == result.categoryScores
    IN /\ [j \in 1..Len(cs) |-> cs[j].category] = PresentCategories(records)
       /\ \A j \in 1..Len(cs) : cs[j].score # <<>> /\ cs[j].score # <<0>>
       /\ Len(cs) = 0 <=> result.overallScore = <<>>
       /\ Len(cs) > 0 => result.overallScore[1] * Len(cs) = sumScores(cs)

\* C12 amended: the same, the overall score being the mean of the present
\* category scores rounded to the nearest integer (halves up).
C12_OverallIsRoundedMean ==
  call.fn = "HealthScoreDashboard" =>
    LET cs == result.categoryScores
    IN /\ [j \in 1..Len(cs) |-> cs[j].category] = PresentCategories(records)
       /\ \A j \in 1..Len(cs) : cs[j].score # <<>> /\ cs[j].score # <<0>>
       /\ Len(cs) = 0 <=> result.overallScore = <<>>
       /\ Len(cs) > 0 => IsRounded(result.overallScore[1], sumScores(cs), Len(cs))

\* Two categories present, one of the modelled three absent, and a mean that
\* is not an integer.
C12_Witness ==
  /\ call.fn = "HealthScoreDashboard"
  /\ Len(result.categoryScores) = 2
  /\ ~HasData(records, "crp")
  /\ sumScores(result.categoryScores) = 167
  /\ result.overallScore = <<84>>

\* C13: every category score of the dashboard and of the radar, and the
\* overall score when there is one, lies within 0..100.
C13_ScoresWithinRange ==
  /\ call.fn = "HealthScoreDashboard" =>
       /\ \A j \in 1..Len(result.categoryScores) :
             result.categoryScores[j].score[1] \in 0..100
       /\ \A j \in 1..Len(result.overallScore) : result.overallScore[j] \in 0..100
  /\ call.fn = "HealthRadar" =>
       \A j \in 1..Len(result.radarData) : result.radarData[j].score \in 0..100

\* The radar is rendered with three categories, one of them at the lowest
\* score.
C13_Witness ==
  /\ call.fn = "HealthRadar"
  /\ result.rendered
  /\ Len(result.radarData) = 3
  /\ \E j \in 1..3 : result.radarData[j].score = 20
  /\ \E j \in 1..3 : result.radarData[j].score = 100

----------------------------------------------------------------------------
(* Goal tracker: direction                                                 *)

\* The observations of a marker with the smallest and with the largest date.
EarliestOf(recs) ==
  {r \in {recs[j] : j \in 1..Len(recs)} : \A j \in 1..Len(recs) : r.date <= recs[j].date}

NewestOf(recs) ==
  {r \in {recs[j] : j \in 1..Len(recs)} : \A j \in 1..Len(recs) : r.date >= recs[j].date}

\* C14: when the target is below the baseline (the earliest observation) but
\* the latest value is above it, or the target is above the baseline but the
\* latest value is below it, the goal's progress is 0 whatever the size of
\* the change.
C14_WrongDirectionIsZero ==
  call.fn = "GoalsTracker" =>
    \A i \in 1..Len(goals) :
      LET recs == filterByMarker(records, goals[i].markerId)
          target == goals[i].targetValue
      IN \A e \in EarliestOf(recs) : \A l \in NewestOf(recs) :
            ((target < e.value /\ l.value > e.value) \/ (target > e.value /\ l.value < e.value))
            => result[i].num = 0

\* Baseline 100, target 70 and latest 110: progress 0.
C14_Witness ==
  /\ call.fn = "GoalsTracker"
  /\ records = <<Record("ldl", 10000, 1), Record("ldl", 11000, 2)>>
  /\ goals[1].targetValue = 7000
  /\ result[1].num = 0

----------------------------------------------------------------------------
(* Visit-Prep summarizer                                                   *)

\* Object.keys(BIOMARKER_DEFINITIONS), in insertion order.
MarkerKeys ==
  <<
     "glucose", "hba1c", "insulin", "totalCholesterol", "ldl", "hdl", "triglycerides",
     "homocysteine", "creatinine", "egfr", "bun", "uricAcid", "alt", "ast", "ggt",
     "bilirubin", "albumin", "alp", "tsh", "freeT4", "freeT3", "crp", "esr", "vitaminD",
     "vitaminB12", "folate", "iron", "ferritin", "calcium", "magnesium", "zinc",
     "hemoglobin", "hematocrit", "rbc", "wbc", "platelets", "mcv", "testosterone",
     "estradiol", "cortisol", "dheas"
  >>

\* Only critical markers are flagged.
FlagStatuses_CriticalOnly == {"critical"}

FlagStatuses == {"attention", "critical"}

SignificantPercent == 15

\* ((latest.value - previous.value) / previous.value) * 100 with its three
\* uses: Math.abs(change) > 15, change.toFixed(1) and change > 0.  A division
\* by 0 gives Infinity, -Infinity or NaN; Math.abs(NaN) > 15 is false.
changeIsSignificant(latest, previous) ==
  IF previous # 0
  THEN Abs((latest - previous) * 100) > SignificantPercent * Abs(previous)
  ELSE latest # 0

changeIsPositive(latest, previous) ==
  IF previous # 0 THEN (latest - previous) * previous > 0 ELSE latest > 0

changeToFixed(latest, previous) ==
  IF previous # 0
  THEN [kind |-> "number",
        tenths |-> (IF changeIsPositive(latest, previous) THEN 1 ELSE -1)
                     * toFixed1(Abs((latest - previous) * 100), Abs(previous))]
  ELSE [kind |-> IF latest > 0 THEN "Infinity" ELSE "-Infinity", tenths |-> 0]

\* VisitPreparation with an inclusive threshold: a change of exactly 15% is
\* reported.
VisitPreparation_Inclusive(recs) ==
  LET sortedOf(id) == sortByDateDesc(filterByMarker(recs, id))
      flagged == SelectSeq(MarkerKeys, LAMBDA id :
                   /\ sortedOf(id) # <<>>
                   /\ getStatus(sortedOf(id)[1].value, id) \in FlagStatuses)
      changed == SelectSeq(MarkerKeys, LAMBDA id :
                   /\ Len(sortedOf(id)) >= 2
                   /\ \/ changeIsSignificant(sortedOf(id)[1].value, sortedOf(id)[2].value)
                      \/ Abs((sortedOf(id)[1].value - sortedOf(id)[2].value) * 100)
                           = SignificantPercent * Abs(sortedOf(id)[2].value))
  IN [flaggedMarkers |->
        [i \in 1..Len(flagged) |->
           [id |-> flagged[i], value |-> sortedOf(flagged[i])[1].value,
            status |-> getStatus(sortedOf(flagged[i])[1].value, flagged[i])]],
      significantChanges |->
        [i \in 1..Len(changed) |->
           [id |-> changed[i],
            change |-> changeToFixed(sortedOf(changed[i])[1].value, sortedOf(changed[i])[2].value),
            direction |-> IF changeIsPositive(sortedOf(changed[i])[1].value,
                                              sortedOf(changed[i])[2].value)
                          THEN "increased" ELSE "decreased"]],
      questions |-> Min(5, Len(flagged) + Min(2, Len(changed)) + 2)]

\* VisitPreparation flagging only the critical markers.
VisitPreparation_CriticalOnly(recs) ==
  LET sortedOf(id) == sortByDateDesc(filterByMarker(recs, id))
      flagged == SelectSeq(MarkerKeys, LAMBDA id :
                   /\ sortedOf(id) # <<>>
                   /\ getStatus(sortedOf(id)[1].value, id) = "critical")
      changed == SelectSeq(MarkerKeys, LAMBDA id :
                   /\ Len(sortedOf(id)) >= 2
                   /\ changeIsSignificant(sortedOf(id)[1].value, sortedOf(id)[2].value))
  IN [flaggedMarkers |->
        [i \in 1..Len(flagged) |->
           [id |-> flagged[i], value |-> sortedOf(flagged[i])[1].value,
            status |-> getStatus(sortedOf(flagged[i])[1].value, flagged[i])]],
      significantChanges |->
        [i \in 1..Len(changed) |->
           [id |-> changed[i],
            change |-> changeToFixed(sortedOf(changed[i])[1].value, sortedOf(changed[i])[2].value),
            direction |-> IF changeIsPositive(sortedOf(changed[i])[1].value,
                                              sortedOf(changed[i])[2].value)
                          THEN "increased" ELSE "decreased"]],
      questions |-> Min(5, Len(flagged) + Min(2, Len(changed)) + 2)]

\* The two lists VisitPreparation builds, in catalog key order, and the
\* number of questions derived from them.
VisitPreparation(recs) ==
  LET sortedOf(id) == sortByDateDesc(filterByMarker(recs, id))
      flagged == SelectSeq(MarkerKeys, LAMBDA id :
                   /\ sortedOf(id) # <<>>
                   /\ getStatus(sortedOf(id)[1].value, id) \in FlagStatuses)
      changed == SelectSeq(MarkerKeys, LAMBDA id :
                   /\ Len(sortedOf(id)) >= 2
                   /\ changeIsSignificant(sortedOf(id)[1].value, sortedOf(id)[2].value))
  IN [flaggedMarkers |->
        [i \in 1..Len(flagged) |->
           [id |-> flagged[i], value |-> sortedOf(flagged[i])[1].value,
            status |-> getStatus(sortedOf(flagged[i])[1].value, flagged[i])]],
      significantChanges |->
        [i \in 1..Len(changed) |->
           [id |-> changed[i],
            change |-> changeToFixed(sortedOf(changed[i])[1].value, sortedOf(changed[i])[2].value),
            direction |-> IF changeIsPositive(sortedOf(changed[i])[1].value,
                                              sortedOf(changed[i])[2].value)
                          THEN "increased" ELSE "decreased"]],
      questions |-> Min(5, Len(flagged) + Min(2, Len(changed)) + 2)]

----------------------------------------------------------------------------
(* Visit-Prep summarizer: glucose histories around the 15% threshold, with *)
(* a zero value, and a critical HDL reading.                               *)

MaxVisitLen == 3

VisitValues == {0, 8000, 10000, 11500}

VisitRecords ==
  {Record("glucose", v, d) : v \in VisitValues, d \in Dates} \cup {Record("hdl", 3000, 1)}

InitVisit ==
  /\ \E k \in 0..MaxVisitLen : records \in [1..k -> VisitRecords]
  /\ goals = <<>>
  /\ call = NoCall
  /\ result = NoResult
  /\ AppAtRest

RenderVisit ==
  /\ call' = [fn |-> "VisitPreparation"]
  /\ result' = VisitPreparation(records)
  /\ UNCHANGED <<records, goals, appVars>>

NextVisit == RenderVisit

SpecVisit == InitVisit /\ [][NextVisit]_vars

\* The ids listed in a sequence of entries.
IdsOf(entries) == {entries[i].id : i \in 1..Len(entries)}

\* The number of a marker's observations that are more recent than the i-th:
\* a later date, or the same date and given earlier.
MoreRecent(recs, i) ==
  Cardinality({j \in 1..Len(recs) :
     recs[j].date > recs[i].date \/ (recs[j].date = recs[i].date /\ j < i)})

\* The value of the observation with exactly k more recent observations.
KthMostRecent(recs, k) == recs[CHOOSE i \in 1..Len(recs) : MoreRecent(recs, i) = k].value

\* C15: flaggedMarkers lists exactly the catalog markers that have at least
\* one observation and whose most recent observation by date classifies as
\* attention or critical, each once, with that observation's value and status.
C15_FlaggedAreLatestAttentionOrCritical ==
  call.fn = "VisitPreparation" =>
    /\ \A m \in MarkerIds :
         m \in IdsOf(result.flaggedMarkers)
           <=> /\ HasData(records, m)
               /\ getStatus(LatestValue(records, m), m) \in {"attention", "critical"}
    /\ IdsOf(result.flaggedMarkers) \subseteq MarkerIds
    /\ \A i, j \in 1..Len(result.flaggedMarkers) :
         result.flaggedMarkers[i].id = result.flaggedMarkers[j].id => i = j
    /\ \A i \in 1..Len(result.flaggedMarkers) :
         LET f == result.flaggedMarkers[i]
         IN /\ f.value = LatestValue(records, f.id)
            /\ f.status = getStatus(f.value, f.id)

\* Glucose was critical and is now normal (not flagged); HDL, recorded first,
\* is critical (flagged).
C15_Witness ==
  /\ call.fn = "VisitPreparation"
  /\ records = <<Record("hdl", 3000, 1), Record("glucose", 10000, 3), Record("glucose", 0, 2)>>
  /\ IdsOf(result.flaggedMarkers) = {"hdl"}

\* C16: significantChanges lists a marker exactly when it has at least 2
\* observations and |latest - previous| / previous * 100 > 15 strictly, latest
\* and previous being its two most recent observations by date.  With a
\* previous value of 0 the quotient is that of the program's arithmetic:
\* infinite (greater than 15) for a nonzero latest value, not a number (not
\* greater than 15) for a latest value of 0.
C16_SignificantChangeOver15 ==
  call.fn = "VisitPreparation" =>
    \A m \in MarkerIds :
      LET recs == filterByMarker(records, m)
      IN m \in IdsOf(result.significantChanges)
           <=> /\ Len(recs) >= 2
               /\ LET latest == KthMostRecent(recs, 0)
                      previous == KthMostRecent(recs, 1)
                  IN IF previous > 0
                     THEN Abs(latest - previous) * 100 > 15 * previous
                     ELSE latest # 0

\* A rise of exactly 15% (100 to 115) between the two most recent glucose
\* observations, after an older 80: nothing reported.
C16_Witness ==
  /\ call.fn = "VisitPreparation"
  /\ records = <<Record("glucose", 11500, 3), Record("glucose", 8000, 1), Record("glucose", 10000, 2)>>
  /\ result.significantChanges = <<>>

----------------------------------------------------------------------------
(* Trend, patterns and goal progress on short and degenerate histories:    *)
(* LDL histories with a zero value and one goal on LDL, next to single     *)
(* readings of the markers the pattern rules test.                         *)

MaxEngineLen == 3

EngineValues == {0, 10000}

EngineRecords ==
  {Record("ldl", v, d) : v \in EngineValues, d \in Dates}
    \cup {Record("tsh", 500, 1), Record("hemoglobin", 1100, 1), Record("ferritin", 2000, 1),
          Record("creatinine", 150, 1), Record("egfr", 5500, 1),
          Record("glucose", 11000, 1), Record("triglycerides", 16000, 1), Record("hdl", 3500, 1)}

\* The markers whose card is opened: one with a history and one never recorded.
EngineMarkers == {"ldl", "zinc"}

\* records.filter(r => r.markerId === id) sorted by date ascending.
getMarkerData(recs, id) == sortByDateAsc(filterByMarker(recs, id))

InitEngine ==
  /\ \E k \in 0..MaxEngineLen : records \in [1..k -> EngineRecords]
  /\ goals = <<[markerId |-> "ldl", targetValue |-> 10000]>>
  /\ call = NoCall
  /\ result = NoResult
  /\ AppAtRest

TrendOfMarker(m) ==
  /\ call' = [fn |-> "calculateTrend", markerId |-> m]
  /\ result' = calculateTrend(getMarkerData(records, m))
  /\ UNCHANGED <<records, goals, appVars>>

PatternsOfRecords ==
  /\ call' = [fn |-> "detectPatterns", markerId |-> "none"]
  /\ result' = detectPatterns(records)
  /\ UNCHANGED <<records, goals, appVars>>

ProgressOfGoals ==
  /\ call' = [fn |-> "GoalsTracker", markerId |-> "none"]
  /\ result' = GoalsTracker(goals, records)
  /\ UNCHANGED <<records, goals, appVars>>

NextEngine ==
  \/ \E m \in EngineMarkers : TrendOfMarker(m)
  \/ PatternsOfRecords
  \/ ProgressOfGoals

SpecEngine == InitEngine /\ [][NextEngine]_vars

\* The number of observations of a marker.
ObservationCount(recs, m) == Cardinality({i \in 1..Len(recs) : recs[i].markerId = m})

\* C17: with too little history every computation returns its neutral value:
\* the trend of a marker with 0 or 1 observations is stable with magnitude 0;
\* a pattern is emitted only when the markers its rule requires have data
\* (TSH for thyroid, hemoglobin and ferritin for iron deficiency, creatinine
\* and eGFR for kidney, at least 3 of glucose, triglycerides, HDL and HbA1c
\* for metabolic) and lists only markers that have data; the progress of a
\* goal whose marker has 0 or 1 observations is 0.
C17_InsufficientHistoryIsNeutral ==
  /\ call.fn = "calculateTrend" =>
       (ObservationCount(records, call.markerId) < 2
          => result = [direction |-> "stable", change |-> 0])
  /\ call.fn = "detectPatterns" =>
       /\ ~HasData(records, "tsh") => "thyroid" \notin TypesOf(result)
       /\ (~HasData(records, "hemoglobin") \/ ~HasData(records, "ferritin"))
            => "iron_deficiency" \notin TypesOf(result)
       /\ (~HasData(records, "creatinine") \/ ~HasData(records, "egfr"))
            => "kidney" \notin TypesOf(result)
       /\ Len(WithData(records, <<"glucose", "triglycerides", "hdl", "hba1c">>)) < 3
            => "metabolic_syndrome" \notin TypesOf(result)
       /\ \A i \in 1..Len(result) : \A j \in 1..Len(result[i].markers) :
            HasData(records, result[i].markers[j])
  /\ call.fn = "GoalsTracker" =>
       \A i \in 1..Len(goals) :
         ObservationCount(records, goals[i].markerId) < 2 => result[i].num = 0

\* Creatinine is high and eGFR was never recorded: no pattern.
C17_Witness ==
  /\ call.fn = "detectPatterns"
  /\ records = <<Record("creatinine", 150, 1), Record("ldl", 10000, 1)>>
  /\ result = <<>>

\* C18: when the window of the 3 most recent observations opens with the
\* value 0 the trend is stable with magnitude 0; when the goal's target equals
\* the baseline (the earliest observation, or the value the computation reads
\* as baseline) the progress is 0; and no division has the divisor 0.
C18_DegenerateArithmeticGuarded ==
  /\ call.fn = "calculateTrend" =>
       LET recs == filterByMarker(records, call.markerId)
       IN /\ (Len(recs) >= 2 /\ WindowFirst(recs) = 0)
               => result = [direction |-> "stable", change |-> 0]
          /\ 0 \notin trendDivisors(getMarkerData(records, call.markerId))
  /\ call.fn = "GoalsTracker" =>
       \A i \in 1..Len(goals) :
         LET recs == filterByMarker(records, goals[i].markerId)
         IN /\ \A e \in EarliestOf(recs) \cup NewestOf(recs) :
                 goals[i].targetValue = e.value => result[i].num = 0
            /\ result[i].den # 0
            /\ 0 \notin goalDivisors(goals[i], records)

\* The window opens with 0 and closes with 100.
C18_Witness ==
  /\ call.fn = "calculateTrend"
  /\ call.markerId = "ldl"
  /\ records = <<Record("ldl", 10000, 2), Record("ldl", 0, 1)>>
  /\ result = [direction |-> "stable", change |-> 0]

----------------------------------------------------------------------------
(* Reference catalog                                                       *)

\* C19: every definition of the catalog (the classifier is applied to each
\* of them) orders its bounds as criticalLow <= normalRange.low <=
\* optimalRange.low <= optimalRange.high <= normalRange.high <= criticalHigh,
\* and its category is one of CATEGORIES.
C19_RangeOrdering ==
  (call.fn = "getStatus" /\ call.markerId \in MarkerIds) =>
    LET def == BIOMARKER_DEFINITIONS[call.markerId]
    IN /\ def.criticalLow <= def.normalRange[1]
       /\ def.normalRange[1] <= def.optimalRange[1]
       /\ def.optimalRange[1] <= def.optimalRange[2]
       /\ def.optimalRange[2] <= def.normalRange[2]
       /\ def.normalRange[2] <= def.criticalHigh
       /\ \E i \in 1..Len(CATEGORIES) : CATEGORIES[i] = def.category

\* A definition whose ordering is not strict (the normal
\* range ends where the critical zone begins) has been used to classify.
C19_Witness ==
  /\ call.fn = "getStatus"
  /\ call.markerId \in MarkerIds
  /\ BIOMARKER_DEFINITIONS[call.markerId].category = "Nutrients"
  /\ BIOMARKER_DEFINITIONS[call.markerId].normalRange[2]
       = BIOMARKER_DEFINITIONS[call.markerId].criticalHigh
  /\ call.value = BIOMARKER_DEFINITIONS[call.markerId].criticalHigh
  /\ result = "critical"

\* C20: no value is both critical (at or below criticalLow, at or above
\* criticalHigh) and inside the inclusive optimal range of its marker: a value
\* classified critical never lies in the optimal window.
C20_CriticalAndOptimalDisjoint ==
  (call.fn = "getStatus" /\ call.markerId \in MarkerIds) =>
    LET def == BIOMARKER_DEFINITIONS[call.markerId]
        v == call.value
    IN ~ /\ (v <= def.criticalLow \/ v >= def.criticalHigh)
         /\ def.optimalRange[1] <= v
         /\ v <= def.optimalRange[2]

----------------------------------------------------------------------------
(* One render of the application: every consumer of the records            *)

\* BiomarkerCard (and InsightsPanel, which repeats lines 538-540): null (<<>>)
\* without a definition or data, else the last element of the data sorted by
\* date ascending, its status and the trend of the data.
BiomarkerCard(recs, markerId) ==
  LET data == getMarkerData(recs, markerId)
  IN IF markerId \notin MarkerIds \/ data = <<>> THEN <<>>
     ELSE <<[value |-> data[Len(data)].value,
             status |-> getStatus(data[Len(data)].value, markerId),
             trend |-> calculateTrend(data)]>>

\* The value each consumer reads as the marker's latest observation: <<v>>,
\* or <<>> when it reads none.
latestOfCard(recs, id) ==
  LET data == getMarkerData(recs, id)
  IN IF data = <<>> THEN <<>> ELSE <<data[Len(data)].value>>

\* The last element of calculateTrend's window; no window under 2 records.
latestOfTrend(recs, id) ==
  LET data == getMarkerData(recs, id)
      recent == sliceLast(sortByDateAsc(data), TrendWindow)
  IN IF Len(data) < 2 THEN <<>> ELSE <<recent[Len(recent)].value>>

latestOfScores(recs, id) ==
  LET markerRecords == filterByMarker(recs, id)
  IN IF markerRecords = <<>> THEN <<>> ELSE <<sortByDateDesc(markerRecords)[1].value>>

latestOfPatterns(recs, id) ==
  IF id \in DOMAIN latestValues(recs) THEN <<latestValues(recs)[id]>> ELSE <<>>

latestOfGoal(g, recs) ==
  LET markerRecords == filterByMarker(recs, g.markerId)
  IN IF markerRecords = <<>> THEN <<>> ELSE <<sortByDateDesc(markerRecords)[1].value>>

latestOfVisit(recs, id) ==
  LET markerRecords == filterByMarker(recs, id)
  IN IF markerRecords = <<>> THEN <<>> ELSE <<sortByDateDesc(markerRecords)[1].value>>

\* Arrays in memory.  records.filter(...), [...records] and records.slice(...)
\* allocate a new array; Array.prototype.sort reorders the array it is called
\* on and returns it.
allocate(recs, local) == [records |-> recs, local |-> local]

sortAscInPlace(heap, name) == [heap EXCEPT ![name] = sortByDateAsc(@)]

sortDescInPlace(heap, name) == [heap EXCEPT ![name] = sortByDateDesc(@)]

\* For each id in turn: records.filter(r => r.markerId === id) and then a
\* sort by date descending of the array named target.  The ids are walked
\* in order, the first half before the second (a sort never changes the
\* length of an array).
RECURSIVE filterThenSortEach(_, _, _)
filterThenSortEach(ids, recs, target) ==
  IF ids = <<>> THEN recs
  ELSE IF Len(ids) = 1
  THEN sortDescInPlace(allocate(recs, filterByMarker(recs, ids[1])), target).records
  ELSE LET half == Len(ids) \div 2
           after == filterThenSortEach(SubSeq(ids, 1, half), recs, target)
       IN IF Len(after) = Len(recs)
          THEN filterThenSortEach(SubSeq(ids, half + 1, Len(ids)), after, target)
          ELSE after

\* The records array after each computation has run on it.
\* getMarkerData sorts the filtered array; calculateTrend sorts [...records].
recordsAfterCard(recs, id) ==
  LET data == sortAscInPlace(allocate(recs, filterByMarker(recs, id)), "local")
  IN sortAscInPlace(allocate(data.records, data.local), "local").records

recordsAfterScores(recs) == filterThenSortEach(MarkerKeys, recs, "local")

recordsAfterPatterns(recs) == filterThenSortEach(MarkerKeys, recs, "local")

\* GoalsTracker with the sort applied to the records array itself.
recordsAfterGoals_SortsRecords(gs, recs) ==
  filterThenSortEach([i \in 1..Len(gs) |-> gs[i].markerId], recs, "records")

recordsAfterGoals(gs, recs) ==
  filterThenSortEach([i \in 1..Len(gs) |-> gs[i].markerId], recs, "local")

\* VisitPreparation reversing the records array itself.
recordsAfterVisit_ReversesRecords(recs) == [i \in 1..Len(recs) |-> recs[Len(recs) + 1 - i]]

recordsAfterVisit(recs) == filterThenSortEach(MarkerKeys, recs, "local")

----------------------------------------------------------------------------
(* The consumers of one snapshot, invoked in any order and any number of   *)
(* times: TSH histories with equal dates and different values (2.0 is      *)
(* optimal, 5.0 is attention and above the thyroid rule's 4.0), a glucose  *)
(* reading, and one goal on TSH.  result keeps the last output of each      *)
(* consumer.                                                               *)

MaxRenderLen == 2

RenderValues == {200, 500}

RenderRecords ==
  {Record("tsh", v, d) : v \in RenderValues, d \in Dates} \cup {Record("glucose", 9500, 1)}

\* The marker whose card is shown.
selectedMarker == "tsh"

\* No consumer has run; the output of a consumer that has run is <<output>>.
NoOutputs == [card |-> <<>>, scores |-> <<>>, patterns |-> <<>>, goals |-> <<>>, visit |-> <<>>]

InitRender ==
  /\ \E k \in 0..MaxRenderLen : records \in [1..k -> RenderRecords]
  /\ goals = <<[markerId |-> selectedMarker, targetValue |-> 200]>>
  /\ call = NoCall
  /\ result = NoOutputs
  /\ AppAtRest

ShowCard ==
  /\ call' = [fn |-> "BiomarkerCard", again |-> result.card # <<>>]
  /\ result' = [result EXCEPT !.card =
                  <<[latest |-> latestOfCard(records, selectedMarker),
                   trendEnd |-> latestOfTrend(records, selectedMarker),
                   out |-> BiomarkerCard(records, selectedMarker)]>>]
  /\ records' = recordsAfterCard(records, selectedMarker)
  /\ UNCHANGED <<goals, appVars>>

ShowScores ==
  /\ call' = [fn |-> "HealthScoreDashboard", again |-> result.scores # <<>>]
  /\ result' = [result EXCEPT !.scores =
                  <<[latest |-> latestOfScores(records, selectedMarker),
                   out |-> HealthScoreDashboard(records)]>>]
  /\ records' = recordsAfterScores(records)
  /\ UNCHANGED <<goals, appVars>>

ShowPatterns ==
  /\ call' = [fn |-> "detectPatterns", again |-> result.patterns # <<>>]
  /\ result' = [result EXCEPT !.patterns =
                  <<[latest |-> latestOfPatterns(records, selectedMarker),
                   out |-> detectPatterns(records)]>>]
  /\ records' = recordsAfterPatterns(records)
  /\ UNCHANGED <<goals, appVars>>

ShowGoals ==
  /\ call' = [fn |-> "GoalsTracker", again |-> result.goals # <<>>]
  /\ result' = [result EXCEPT !.goals =
                  <<[latest |-> latestOfGoal(goals[1], records),
                   out |-> GoalsTracker(goals, records)]>>]
  /\ records' = recordsAfterGoals(goals, records)
  /\ UNCHANGED <<goals, appVars>>

ShowVisit ==
  /\ call' = [fn |-> "VisitPreparation", again |-> result.visit # <<>>]
  /\ result' = [result EXCEPT !.visit =
                  <<[latest |-> latestOfVisit(records, selectedMarker),
                   out |-> VisitPreparation(records)]>>]
  /\ records' = recordsAfterVisit(records)
  /\ UNCHANGED <<goals, appVars>>

NextRender == ShowCard \/ ShowScores \/ ShowPatterns \/ ShowGoals \/ ShowVisit

SpecRender == InitRender /\ [][NextRender]_vars

\* The latest values read by the consumers that have run.
LatestRead ==
  {result[c][1].latest : c \in {x \in DOMAIN result : result[x] # <<>>}}
    \cup (IF result.card # <<>> /\ ObservationCount(records, selectedMarker) >= 2
          THEN {result.card[1].trendEnd} ELSE {})

\* C21: the card status, the end of the trend window, the category score,
\* pattern detection, the goal tracker and Visit-Prep all read the same
\* observation as the marker's latest one, also when two observations share
\* the most recent date with different values.
C21_ConsumersAgreeOnLatest == Cardinality(LatestRead) <= 1

\* C22: no computation changes the records: after it the records sequence
\* holds the same observations in the same order.
C22_RecordsNeverWritten == [][records' = records]_vars

\* Every consumer has run on records that are not in date order and share a
\* date.
C22_Witness ==
  /\ \A c \in DOMAIN result : result[c] # <<>>
  /\ records = <<Record("tsh", 500, 2), Record("tsh", 200, 2)>>

\* C23: a consumer invoked again on the same snapshot, whatever ran in
\* between, returns the output it returned before.
C23_SameOutputOnSameSnapshot ==
  [][\A c \in DOMAIN result : result[c] # <<>> => result'[c] = result[c]]_vars

\* The card has been shown a second time after every other consumer has run,
\* on two observations that share a date.
C23_Witness ==
  /\ call = [fn |-> "BiomarkerCard", again |-> TRUE]
  /\ \A c \in DOMAIN result : result[c] # <<>>
  /\ records = <<Record("tsh", 200, 1), Record("tsh", 500, 1)>>

----------------------------------------------------------------------------
(* The analytics over an explicit catalog                                  *)

\* getStatus skipping the upper critical bound of a higherIsBetter marker.
getStatusWith_DirectionAware(catalog, value, markerId) ==
  IF markerId \notin DOMAIN catalog THEN "normal"
  ELSE LET def == catalog[markerId] IN
       IF value <= def.criticalLow \/ (def.higherIsBetter # "true" /\ value >= def.criticalHigh)
       THEN "critical"
       ELSE IF value >= def.optimalRange[1] /\ value <= def.optimalRange[2] THEN "optimal"
       ELSE IF value >= def.normalRange[1] /\ value <= def.normalRange[2] THEN "normal"
       ELSE "attention"

\* getStatus, the catalog it reads made a parameter.
getStatusWith(catalog, value, markerId) ==
  IF markerId \notin DOMAIN catalog THEN "normal"
  ELSE LET def == catalog[markerId] IN
       IF value <= def.criticalLow \/ value >= def.criticalHigh THEN "critical"
       ELSE IF value >= def.optimalRange[1] /\ value <= def.optimalRange[2] THEN "optimal"
       ELSE IF value >= def.normalRange[1] /\ value <= def.normalRange[2] THEN "normal"
       ELSE "attention"

RECURSIVE sumPointsWith(_, _, _)
sumPointsWith(catalog, ids, recs) ==
  IF ids = {} THEN 0
  ELSE LET id == CHOOSE x \in ids : TRUE
           latest == sortByDateDesc(filterByMarker(recs, id))[1]
       IN statusPoints(getStatusWith(catalog, latest.value, id))
            + sumPointsWith(catalog, ids \ {id}, recs)

\* HealthScoreDashboard over the catalog.
HealthScoreDashboardWith(catalog, recs) ==
  LET markers(category) == {id \in DOMAIN catalog : catalog[id].category = category
                                                     /\ filterByMarker(recs, id) # <<>>}
      scoreOf(category) ==
        LET count == Cardinality(markers(category))
        IN [category |-> category,
            score |-> IF count > 0
                      THEN <<mathRound(sumPointsWith(catalog, markers(category), recs), count)>>
                      ELSE <<>>,
            count |-> count]
      categoryScores == SelectSeq([i \in 1..Len(CATEGORIES) |-> scoreOf(CATEGORIES[i])],
                                  LAMBDA c : c.score # <<>>)
  IN [categoryScores |-> categoryScores,
      overallScore |-> IF Len(categoryScores) > 0
                       THEN <<mathRound(sumScores(categoryScores), Len(categoryScores))>>
                       ELSE <<>>]

\* detectPatterns over the catalog: only its keys are read.
detectPatternsWith(catalog, recs) ==
  LET latest == [id \in {m \in DOMAIN catalog : filterByMarker(recs, m) # <<>>} |->
                    sortByDateDesc(filterByMarker(recs, id))[1].value]
  IN metabolicPattern(latest) \o ironPattern(latest)
       \o thyroidPattern(latest) \o kidneyPattern(latest)

\* VisitPreparation over the catalog.
VisitPreparationWith(catalog, recs) ==
  LET keys == SelectSeq(MarkerKeys, LAMBDA id : id \in DOMAIN catalog)
      sortedOf(id) == sortByDateDesc(filterByMarker(recs, id))
      flagged == SelectSeq(keys, LAMBDA id :
                   /\ sortedOf(id) # <<>>
                   /\ getStatusWith(catalog, sortedOf(id)[1].value, id) \in FlagStatuses)
      changed == SelectSeq(keys, LAMBDA id :
                   /\ Len(sortedOf(id)) >= 2
                   /\ changeIsSignificant(sortedOf(id)[1].value, sortedOf(id)[2].value))
  IN [flaggedMarkers |->
        [i \in 1..Len(flagged) |->
           [id |-> flagged[i], value |-> sortedOf(flagged[i])[1].value,
            status |-> getStatusWith(catalog, sortedOf(flagged[i])[1].value, flagged[i])]],
      significantChanges |->
        [i \in 1..Len(changed) |->
           [id |-> changed[i],
            change |-> changeToFixed(sortedOf(changed[i])[1].value, sortedOf(changed[i])[2].value),
            direction |-> IF changeIsPositive(sortedOf(changed[i])[1].value,
                                              sortedOf(changed[i])[2].value)
                          THEN "increased" ELSE "decreased"]],
      questions |-> Min(5, Len(flagged) + Min(2, Len(changed)) + 2)]

\* The color of the card's trend arrow, the one reader of higherIsBetter:
\* def.higherIsBetter is truthy only when true, and === false only when false.
trendColor(catalog, markerId, trend) ==
  IF trend.direction = "up"
  THEN (IF catalog[markerId].higherIsBetter = "true" THEN "optimal" ELSE "critical")
  ELSE (IF catalog[markerId].higherIsBetter = "false" THEN "optimal" ELSE "critical")

----------------------------------------------------------------------------
(* Catalogs that differ only in one marker's higherIsBetter                *)

MaxCatalogLen == 2

TriState == {"true", "false", "null"}

\* glucose: 95 normal, 130 critical (high); hdl 30 critical (low); tsh 5
\* attention.
CatalogRecords ==
  {Record("glucose", v, d) : v \in {9500, 13000}, d \in Dates}
    \cup {Record("hdl", 3000, 1), Record("tsh", 500, 1)}

\* The markers whose higherIsBetter is varied: false, true and null in the
\* source catalog.
CatalogMarkers == {"glucose", "hdl", "tsh"}

variantCatalog(m, h) == [BIOMARKER_DEFINITIONS EXCEPT ![m].higherIsBetter = h]

InitCatalog ==
  /\ \E k \in 0..MaxCatalogLen : records \in [1..k -> CatalogRecords]
  /\ goals = <<>>
  /\ call = NoCall
  /\ result = NoResult
  /\ AppAtRest

StatusWith(m, h) ==
  \E i \in 1..Len(records) :
    /\ call' = [fn |-> "getStatus", markerId |-> m, higherIsBetter |-> h, index |-> i]
    /\ result' = getStatusWith(variantCatalog(m, h), records[i].value, records[i].markerId)
    /\ UNCHANGED <<records, goals, appVars>>

ScoresWith(m, h) ==
  /\ call' = [fn |-> "HealthScoreDashboard", markerId |-> m, higherIsBetter |-> h, index |-> 0]
  /\ result' = HealthScoreDashboardWith(variantCatalog(m, h), records)
  /\ UNCHANGED <<records, goals, appVars>>

PatternsWith(m, h) ==
  /\ call' = [fn |-> "detectPatterns", markerId |-> m, higherIsBetter |-> h, index |-> 0]
  /\ result' = detectPatternsWith(variantCatalog(m, h), records)
  /\ UNCHANGED <<records, goals, appVars>>

VisitWith(m, h) ==
  /\ call' = [fn |-> "VisitPreparation", markerId |-> m, higherIsBetter |-> h, index |-> 0]
  /\ result' = VisitPreparationWith(variantCatalog(m, h), records)
  /\ UNCHANGED <<records, goals, appVars>>

NextCatalog ==
  \E m \in CatalogMarkers : \E h \in TriState :
    StatusWith(m, h) \/ ScoresWith(m, h) \/ PatternsWith(m, h) \/ VisitWith(m, h)

SpecCatalog == InitCatalog /\ [][NextCatalog]_vars

\* C24: under a catalog that differs from the reference catalog only in a
\* higherIsBetter value, the status, the category and overall scores, the
\* detected patterns and the Visit-Prep output are those computed under the
\* reference catalog.  (Trend and goal progress take no catalog at all.)
C24_HigherIsBetterNeverRead ==
  /\ call.fn = "getStatus" =>
       result = getStatus(records[call.index].value, records[call.index].markerId)
  /\ call.fn = "HealthScoreDashboard" => result = HealthScoreDashboard(records)
  /\ call.fn = "detectPatterns" => result = detectPatterns(records)
  /\ call.fn = "VisitPreparation" => result = VisitPreparation(records)

\* A critically high glucose classified under a catalog that declares higher
\* glucose better, where the trend arrow would change color.
C24_Witness ==
  /\ call.fn = "getStatus"
  /\ call.markerId = "glucose"
  /\ call.higherIsBetter = "true"
  /\ records[call.index] = Record("glucose", 13000, 1)
  /\ result = "critical"
  /\ trendColor(variantCatalog("glucose", "true"), "glucose", [direction |-> "up", change |-> 10])
       # trendColor(BIOMARKER_DEFINITIONS, "glucose", [direction |-> "up", change |-> 10])

----------------------------------------------------------------------------
(* Application: session, offline store and API calls                       *)

\* ApiClient.setToken: the token of the client and the localStorage entry
\* healthcanvas_token (removed for null).
setToken(stor, t) == [token |-> t, storage |-> [stor EXCEPT !.token = t]]

\* The React state of the component as one value.
AppState ==
  [user |-> user, offlineMode |-> offlineMode, loading |-> loading,
   records |-> records, goals |-> goals, watchedMarkers |-> watchedMarkers]

\* Array.from(set) and new Set(array).
arrayFrom(set) ==
  CHOOSE a \in [1..Cardinality(set) -> set] : {a[i] : i \in 1..Cardinality(set)} = set

newSet(array) == {array[i] : i \in 1..Len(array)}

\* JSON.stringify of the saved object and JSON.parse of the stored text: the
\* lists are plain data with finite numbers and are kept as they are; the
\* watched markers are stored as an array.  medications, conditions,
\* allergies, vaccinations, procedures and journal are set and saved by the
\* same statements as goals.
stringify(s) ==
  [records |-> s.records, goals |-> s.goals, watchedMarkers |-> arrayFrom(s.watchedMarkers)]

\* generateSampleData draws six values for each of fifteen markers with
\* Math.random inside the middle 30% of the normal range; the lists here keep
\* its first record, glucose, at either end of that interval.
generateSampleData == {<<Record("glucose", v, 1)>> : v \in {8050, 8950}}

generateSampleGoals ==
  <<[markerId |-> "ldl", targetValue |-> 7000], [markerId |-> "vitaminD", targetValue |-> 5000]>>

\* loadOfflineData: the stored data when there is some, else sample data
\* (the watched markers are then left as they are).
loadOfflineData(s, stor, sample) ==
  IF stor.offline # <<>>
  THEN LET data == stor.offline[1]
       IN [s EXCEPT !.records = data.records, !.goals = data.goals,
                    !.watchedMarkers = newSet(data.watchedMarkers)]
  ELSE [s EXCEPT !.records = sample, !.goals = generateSampleGoals]

\* The save effect without the watched markers.
saveOffline_WithoutWatched(s, stor) ==
  IF s.offlineMode /\ ~s.loading
  THEN [stor EXCEPT !.offline = <<[stringify(s) EXCEPT !.watchedMarkers = <<>>]>>]
  ELSE stor

\* The effect that runs after every render in which one of the saved values,
\* offlineMode or loading changed.
saveOffline(s, stor) ==
  IF s.offlineMode /\ ~s.loading
  THEN [stor EXCEPT !.offline = <<stringify(s)>>]
  ELSE stor

\* The auth:logout listener registered on mount.
logoutListener(s, stor, sample) ==
  loadOfflineData([s EXCEPT !.user = "null", !.offlineMode = TRUE], stor, sample)

\* The body of createObservation's request and the mapping of loadData.
toApi(record) ==
  [biomarker_id |-> record.markerId, value |-> record.value, effective_date |-> record.date]

fromApi(o) == [markerId |-> o.biomarker_id, value |-> o.value, date |-> o.effective_date]

\* ApiClient.request on a 401: the token is cleared, auth:logout is dispatched
\* (its listener runs before dispatchEvent returns) and the request throws.
unauthorized(s, stor, sample) ==
  [state |-> logoutListener(s, stor, sample), session |-> setToken(stor, <<>>)]

MaxPending == 2
MaxAppLen == 2

AppRecords == {Record("glucose", 9500, 1), Record("glucose", 11000, 2)}
AppGoal == [markerId |-> "glucose", targetValue |-> 9000]
StoredOffline ==
  [records |-> <<Record("tsh", 200, 1)>>, goals |-> <<>>, watchedMarkers |-> <<"tsh">>]
HttpStatuses == {200, 401, 500}

\* An API call in flight: the function that awaits it, the request it waits
\* for, the record and the records of the render that addRecord closed over,
\* and the rows the server has read for it.
Operation(caller, pc, record, closure) ==
  [caller |-> caller, pc |-> pc, record |-> record, closure |-> closure, snapshot |-> <<>>]

removeAt(seq, i) == SubSeq(seq, 1, i - 1) \o SubSeq(seq, i + 1, Len(seq))

AppCall(fn, endpoint, status, completed) ==
  [fn |-> fn, endpoint |-> endpoint, status |-> status, completed |-> completed]

Outcome(status) ==
  [outcome |-> IF status = 200 THEN "data" ELSE IF status = 401 THEN "Session expired" ELSE "error",
   events |-> IF status = 401 THEN <<"auth:logout">> ELSE <<>>]

\* The render that follows the batched state updates of a handler, and the
\* save effect that runs after it.
Commit(s, session) ==
  /\ user' = s.user
  /\ offlineMode' = s.offlineMode
  /\ loading' = s.loading
  /\ records' = s.records
  /\ goals' = s.goals
  /\ watchedMarkers' = s.watchedMarkers
  /\ token' = session.token
  /\ storage' = saveOffline(s, session.storage)

Session == [token |-> token, storage |-> storage]

\* What runs after the awaited call of the operation has settled: checkAuth
\* ends with setLoading(false), addRecord returns.
settle(op, s) == IF op.caller = "checkAuth" THEN [s EXCEPT !.loading = FALSE] ELSE s

completedBy(op) == IF op.caller = "addRecord" THEN op.record ELSE <<>>

InitApp ==
  /\ user = "null" /\ offlineMode = FALSE /\ loading = TRUE
  /\ records = <<>> /\ goals = <<>> /\ watchedMarkers = {}
  /\ \E t \in {<<>>, <<"jwt">>} :
       /\ token = t
       /\ \E o \in {<<>>, <<StoredOffline>>} : storage = [token |-> t, offline |-> o]
  /\ server \in {<<>>, <<toApi(Record("hdl", 5000, 1))>>}
  /\ pending = <<Operation("checkAuth", "mount", <<>>, <<>>)>>
  /\ call = NoCall
  /\ result = NoResult

\* The mount effect up to its first await.
CheckAuth(i) ==
  /\ pending[i].pc = "mount"
  /\ IF token # <<>>
     THEN /\ pending' = [pending EXCEPT ![i].pc = "getMe"]
          /\ Commit(AppState, Session)
     ELSE /\ pending' = removeAt(pending, i)
          /\ \E sample \in generateSampleData :
               Commit([loadOfflineData([AppState EXCEPT !.offlineMode = TRUE], storage, sample)
                         EXCEPT !.loading = FALSE], Session)
  /\ call' = AppCall("checkAuth", "none", 0, <<>>)
  /\ result' = NoResult
  /\ UNCHANGED server

\* The answer to getMe.
GetMeResponds(i, status) ==
  /\ pending[i].pc = "getMe"
  /\ \E sample \in generateSampleData, again \in generateSampleData :
       LET rejected == IF status = 401
                       THEN unauthorized(AppState, storage, sample)
                       ELSE [state |-> AppState, session |-> Session]
       IN IF status = 200
          THEN /\ pending' = [pending EXCEPT ![i].pc = "load"]
               /\ Commit([AppState EXCEPT !.user = "userData"], Session)
          ELSE /\ pending' = removeAt(pending, i)
               /\ Commit([loadOfflineData([rejected.state EXCEPT !.offlineMode = TRUE],
                                          storage, again)
                            EXCEPT !.loading = FALSE], rejected.session)
  /\ call' = AppCall("response", "getMe", status, <<>>)
  /\ result' = Outcome(status)
  /\ UNCHANGED server

\* The server reads the rows for the GET requests of loadData.
ServerReads(i) ==
  /\ pending[i].pc = "load"
  /\ pending[i].snapshot = <<>>
  /\ pending' = [pending EXCEPT ![i].snapshot = <<server>>]
  /\ call' = AppCall("server", "load", 0, <<>>)
  /\ result' = NoResult
  /\ UNCHANGED <<records, goals, user, offlineMode, loading, watchedMarkers, token, storage, server>>

\* The answer to the requests of loadData, its catch, and the rest of the
\* function that awaited it.
LoadResponds(i, status) ==
  /\ pending[i].pc = "load"
  /\ pending[i].snapshot # <<>>
  /\ \E sample \in generateSampleData, again \in generateSampleData :
       LET op == pending[i]
           rows == op.snapshot[1]
           rejected == IF status = 401
                       THEN unauthorized(AppState, storage, sample)
                       ELSE [state |-> AppState, session |-> Session]
       IN IF status = 200
          THEN Commit(settle(op, [AppState EXCEPT !.records = [k \in 1..Len(rows) |-> fromApi(rows[k])],
                                                  !.goals = <<>>]), Session)
          ELSE Commit(settle(op, loadOfflineData([rejected.state EXCEPT !.offlineMode = TRUE],
                                                 storage, again)), rejected.session)
  /\ pending' = removeAt(pending, i)
  /\ call' = AppCall("response", "load", status, completedBy(pending[i]))
  /\ result' = Outcome(status)
  /\ UNCHANGED server

\* Every record of the form carries an id of its own (date, marker and
\* Date.now()): a record that is in the list, on the server or in flight is
\* not entered again.
KnownRecords ==
  {records[k] : k \in 1..Len(records)}
    \cup {fromApi(server[k]) : k \in 1..Len(server)}
    \cup UNION {newSet(pending[k].record) : k \in 1..Len(pending)}

\* addRecord up to its first await (offline: the whole function).
AddRecord(record) ==
  /\ ~loading
  /\ Len(records) < MaxAppLen
  /\ record \notin KnownRecords
  /\ IF offlineMode
     THEN /\ Commit([AppState EXCEPT !.records = Append(records, record)], Session)
          /\ call' = AppCall("addRecord", "none", 0, <<record>>)
          /\ UNCHANGED pending
     ELSE /\ Len(pending) < MaxPending
          /\ Len(server) < MaxAppLen
          /\ pending' = Append(pending, Operation("addRecord", "create", <<record>>, records))
          /\ Commit(AppState, Session)
          /\ call' = AppCall("addRecord", "none", 0, <<>>)
  /\ result' = NoResult
  /\ UNCHANGED server

\* The answer to createObservation and addRecord's catch.
CreateResponds(i, status) ==
  /\ pending[i].pc = "create"
  /\ LET op == pending[i]
     IN IF status = 200
        THEN /\ server' = Append(server, toApi(op.record[1]))
             /\ pending' = [pending EXCEPT ![i].pc = "load"]
             /\ Commit(AppState, Session)
             /\ call' = AppCall("response", "create", status, <<>>)
        ELSE /\ \E sample \in generateSampleData :
                  LET rejected == IF status = 401
                                  THEN unauthorized(AppState, storage, sample)
                                  ELSE [state |-> AppState, session |-> Session]
                  IN Commit([rejected.state EXCEPT !.records = Append(op.closure, op.record[1])],
                            rejected.session)
             /\ pending' = removeAt(pending, i)
             /\ call' = AppCall("response", "create", status, op.record)
             /\ UNCHANGED server
  /\ result' = Outcome(status)

\* The Logout button, shown while a user is signed in.
HandleLogout ==
  /\ ~loading
  /\ user # "null"
  /\ \E sample \in generateSampleData :
       Commit(loadOfflineData([AppState EXCEPT !.user = "null", !.offlineMode = TRUE],
                              storage, sample),
              setToken(storage, <<>>))
  /\ call' = AppCall("handleLogout", "none", 0, <<>>)
  /\ result' = NoResult
  /\ UNCHANGED <<server, pending>>

\* The watch toggle of a marker card.
ToggleWatch(markerId) ==
  /\ ~loading
  /\ Commit([AppState EXCEPT !.watchedMarkers =
               IF markerId \in watchedMarkers
               THEN watchedMarkers \ {markerId}
               ELSE watchedMarkers \cup {markerId}], Session)
  /\ call' = AppCall("toggleWatch", "none", 0, <<>>)
  /\ result' = NoResult
  /\ UNCHANGED <<server, pending>>

\* onAdd of the goals tracker.
AddGoal ==
  /\ ~loading
  /\ Len(goals) < MaxAppLen
  /\ Commit([AppState EXCEPT !.goals = Append(goals, AppGoal)], Session)
  /\ call' = AppCall("addGoal", "none", 0, <<>>)
  /\ result' = NoResult
  /\ UNCHANGED <<server, pending>>

NextApp ==
  \/ \E i \in 1..Len(pending) : CheckAuth(i)
  \/ \E i \in 1..Len(pending), status \in HttpStatuses : GetMeResponds(i, status)
  \/ \E i \in 1..Len(pending) : ServerReads(i)
  \/ \E i \in 1..Len(pending), status \in HttpStatuses : LoadResponds(i, status)
  \/ \E record \in AppRecords : AddRecord(record)
  \/ \E i \in 1..Len(pending), status \in HttpStatuses : CreateResponds(i, status)
  \/ HandleLogout
  \/ \E markerId \in {"glucose"} : ToggleWatch(markerId)
  \/ AddGoal

SpecApp == InitApp /\ [][NextApp]_vars

\* The offline data set as the store held it before the step: the stored
\* lists, or sample data when nothing is stored.
OfflineDataLoaded ==
  IF storage.offline # <<>>
  THEN /\ records' = storage.offline[1].records
       /\ goals' = storage.offline[1].goals
       /\ watchedMarkers' = newSet(storage.offline[1].watchedMarkers)
  ELSE /\ records' \in generateSampleData
       /\ goals' = generateSampleGoals

\* C25: a 401 answer to any request fails the request, clears the token in the
\* client and in localStorage, raises auth:logout, and leaves the application
\* signed out, offline, with its data replaced by the offline data set.
C25_LogoutOn401 ==
  [][(call'.fn = "response" /\ call'.status = 401) =>
       /\ result' = Outcome(401)
       /\ token' = <<>> /\ storage'.token = <<>>
       /\ user' = "null" /\ offlineMode'
       /\ OfflineDataLoaded]_vars

C28_AddedRecordKept ==
  (call.fn # "none" /\ call.completed # <<>>) =>
    \E k \in 1..Len(records) : records[k] = call.completed[1]

----------------------------------------------------------------------------
(* Visit-Prep summarizer: finite percent changes                           *)

\* C27: no entry of significantChanges carries an infinite or NaN percent
\* change: a marker whose previous value is 0 is never reported with one.
C27_VisitChangeIsFinite ==
  call.fn = "VisitPreparation" =>
    \A i \in 1..Len(result.significantChanges) :
      result.significantChanges[i].change.kind = "number"

----------------------------------------------------------------------------
(* Database: seed catalog and the status trigger of observations           *)

\* The rows inserted into biomarker_definitions, in hundredths of the unit
\* (the columns are DECIMAL(10,4); every seed bound has at most two decimals).
biomarker_definitions ==
  [
      glucose |-> [normal_range_low |-> 7000, normal_range_high |-> 10000, optimal_range_low |-> 7200, optimal_range_high |-> 9000, critical_low |-> 5400, critical_high |-> 12600],
      hba1c |-> [normal_range_low |-> 400, normal_range_high |-> 560, optimal_range_low |-> 450, optimal_range_high |-> 520, critical_low |-> 350, critical_high |-> 650],
      insulin |-> [normal_range_low |-> 260, normal_range_high |-> 2490, optimal_range_low |-> 300, optimal_range_high |-> 1000, critical_low |-> 100, critical_high |-> 3000],
      totalCholesterol |-> [normal_range_low |-> 12500, normal_range_high |-> 20000, optimal_range_low |-> 14000, optimal_range_high |-> 18000, critical_low |-> 10000, critical_high |-> 24000],
      ldl |-> [normal_range_low |-> 0, normal_range_high |-> 10000, optimal_range_low |-> 0, optimal_range_high |-> 7000, critical_low |-> 0, critical_high |-> 16000],
      hdl |-> [normal_range_low |-> 4000, normal_range_high |-> 10000, optimal_range_low |-> 6000, optimal_range_high |-> 10000, critical_low |-> 3500, critical_high |-> 12000],
      triglycerides |-> [normal_range_low |-> 0, normal_range_high |-> 15000, optimal_range_low |-> 0, optimal_range_high |-> 10000, critical_low |-> 0, critical_high |-> 50000],
      creatinine |-> [normal_range_low |-> 70, normal_range_high |-> 130, optimal_range_low |-> 80, optimal_range_high |-> 110, critical_low |-> 50, critical_high |-> 150],
      egfr |-> [normal_range_low |-> 9000, normal_range_high |-> 12000, optimal_range_low |-> 10000, optimal_range_high |-> 12000, critical_low |-> 6000, critical_high |-> 15000],
      bun |-> [normal_range_low |-> 700, normal_range_high |-> 2000, optimal_range_low |-> 1000, optimal_range_high |-> 1600, critical_low |-> 500, critical_high |-> 3000],
      alt |-> [normal_range_low |-> 700, normal_range_high |-> 5600, optimal_range_low |-> 1000, optimal_range_high |-> 3500, critical_low |-> 500, critical_high |-> 10000],
      ast |-> [normal_range_low |-> 1000, normal_range_high |-> 4000, optimal_range_low |-> 1500, optimal_range_high |-> 3000, critical_low |-> 500, critical_high |-> 8000],
      tsh |-> [normal_range_low |-> 40, normal_range_high |-> 400, optimal_range_low |-> 100, optimal_range_high |-> 250, critical_low |-> 10, critical_high |-> 1000],
      freeT4 |-> [normal_range_low |-> 80, normal_range_high |-> 180, optimal_range_low |-> 100, optimal_range_high |-> 150, critical_low |-> 50, critical_high |-> 250],
      crp |-> [normal_range_low |-> 0, normal_range_high |-> 300, optimal_range_low |-> 0, optimal_range_high |-> 100, critical_low |-> 0, critical_high |-> 1000],
      vitaminD |-> [normal_range_low |-> 3000, normal_range_high |-> 10000, optimal_range_low |-> 4000, optimal_range_high |-> 6000, critical_low |-> 2000, critical_high |-> 10000],
      vitaminB12 |-> [normal_range_low |-> 20000, normal_range_high |-> 90000, optimal_range_low |-> 40000, optimal_range_high |-> 80000, critical_low |-> 15000, critical_high |-> 100000],
      ferritin |-> [normal_range_low |-> 3000, normal_range_high |-> 30000, optimal_range_low |-> 5000, optimal_range_high |-> 15000, critical_low |-> 1500, critical_high |-> 40000],
      hemoglobin |-> [normal_range_low |-> 1200, normal_range_high |-> 1750, optimal_range_low |-> 1350, optimal_range_high |-> 1600, critical_low |-> 1000, critical_high |-> 1900],
      wbc |-> [normal_range_low |-> 450, normal_range_high |-> 1100, optimal_range_low |-> 500, optimal_range_high |-> 800, critical_low |-> 300, critical_high |-> 1500],
      platelets |-> [normal_range_low |-> 15000, normal_range_high |-> 40000, optimal_range_low |-> 17500, optimal_range_high |-> 30000, critical_low |-> 10000, critical_high |-> 50000],
      sodium |-> [normal_range_low |-> 13600, normal_range_high |-> 14500, optimal_range_low |-> 13800, optimal_range_high |-> 14200, critical_low |-> 13000, critical_high |-> 15000],
      potassium |-> [normal_range_low |-> 350, normal_range_high |-> 500, optimal_range_low |-> 400, optimal_range_high |-> 450, critical_low |-> 300, critical_high |-> 550]
  ]

SeedIds == DOMAIN biomarker_definitions

\* The status part of the trigger function calculate_observation_status
\* (observations.biomarker_id references biomarker_definitions, and the bounds
\* of every seed row are not null).
calculate_observation_status(value, biomarker_id) ==
  IF biomarker_id \notin SeedIds THEN "unknown"
  ELSE LET bio_def == biomarker_definitions[biomarker_id] IN
       IF value <= bio_def.critical_low \/ value >= bio_def.critical_high THEN "critical"
       ELSE IF value >= bio_def.optimal_range_low /\ value <= bio_def.optimal_range_high THEN "optimal"
       ELSE IF value >= bio_def.normal_range_low /\ value <= bio_def.normal_range_high THEN "normal"
       ELSE "attention"

\* Values at and around every bound of a marker in either catalog.
ServerValues(m) ==
  LET bio_def == biomarker_definitions[m]
      bounds == {bio_def.critical_low, bio_def.critical_high, bio_def.normal_range_low,
                 bio_def.normal_range_high, bio_def.optimal_range_low, bio_def.optimal_range_high}
  IN UNION {{b - 1, b, b + 1} : b \in bounds} \cup StatusValues(m)

InitServer ==
  /\ records = <<>>
  /\ goals = <<>>
  /\ call = NoCall
  /\ result = NoResult
  /\ AppAtRest

\* An observation is inserted (the trigger sets its status) and the client
\* classifies the same value.
InsertObservation ==
  \E m \in SeedIds : \E v \in ServerValues(m) :
    /\ call' = [fn |-> "calculate_observation_status", value |-> v, markerId |-> m]
    /\ result' = [server |-> calculate_observation_status(v, m), client |-> getStatus(v, m)]
    /\ UNCHANGED <<records, goals, appVars>>

NextServer == InsertObservation

SpecServer == InitServer /\ [][NextServer]_vars

\* C29: for every marker of both catalogs and every value, the status set by
\* the database trigger equals the status the client's getStatus returns.
C29_ServerAgreesWithClient ==
  (call.fn = "calculate_observation_status" /\ call.markerId \in MarkerIds) =>
    result.server = result.client

----------------------------------------------------------------------------
(* Pattern alerts and flagged markers: the pattern scenarios with one more *)
(* observation at or next to a threshold of the pattern detector.          *)

MaxAlertExtra == 1

AlertValues ==
  [glucose |-> {10000, 10001}, triglycerides |-> {15000, 15001}, hdl |-> {0, 3999, 4000},
   hba1c |-> {560, 561}, hemoglobin |-> {1199, 1200}, ferritin |-> {2999, 3000},
   tsh |-> {39, 40, 400, 401}, creatinine |-> {130, 131}, egfr |-> {5999, 6000}]

\* The additional observation is dated on the day of the scenario (a tie) or
\* on the last day (newer).
AlertRecords ==
  UNION {{Record(m, v, d) : v \in AlertValues[m], d \in {BaseRecord(m, 0).date, MaxDate}}
           : m \in DOMAIN AlertValues}

NoAlerts == [patterns |-> <<>>, visit |-> <<>>]

InitAlerts ==
  /\ \E base \in PatternBases : \E k \in 0..MaxAlertExtra : \E extra \in [1..k -> AlertRecords] :
        records \in {extra \o base, base \o extra}
  /\ goals = <<>>
  /\ call = NoCall
  /\ result = NoAlerts
  /\ AppAtRest

\* The insights panel computes the patterns of the records.
ShowAlerts ==
  /\ call' = [fn |-> "detectPatterns"]
  /\ result' = [result EXCEPT !.patterns = <<detectPatterns(records)>>]
  /\ UNCHANGED <<records, goals, appVars>>

\* The Visit-Prep view summarises the same records.
ShowPrep ==
  /\ call' = [fn |-> "VisitPreparation"]
  /\ result' = [result EXCEPT !.visit = <<VisitPreparation(records)>>]
  /\ UNCHANGED <<records, goals, appVars>>

NextAlerts == ShowAlerts \/ ShowPrep

SpecAlerts == InitAlerts /\ [][NextAlerts]_vars

\* The markers a pattern type tests, and the threshold condition of each.
TestedBy(type) ==
  IF type = "metabolic_syndrome" THEN {"glucose", "triglycerides", "hdl", "hba1c"}
  ELSE IF type = "iron_deficiency" THEN {"hemoglobin", "ferritin"}
  ELSE IF type = "thyroid" THEN {"tsh"}
  ELSE {"creatinine", "egfr"}

OverThreshold(m, v) ==
  IF m = "glucose" THEN v > 10000
  ELSE IF m = "triglycerides" THEN v > 15000
  ELSE IF m = "hdl" THEN v < 4000
  ELSE IF m = "hba1c" THEN v > 560
  ELSE IF m = "hemoglobin" THEN v < 1200
  ELSE IF m = "ferritin" THEN v < 3000
  ELSE IF m = "tsh" THEN v > 400 \/ v < 40
  ELSE IF m = "creatinine" THEN v > 130
  ELSE v < 6000

\* C30: when detectPatterns emits a pattern, every marker whose threshold
\* condition contributed to it has a latest status of attention or critical
\* and is listed in the flaggedMarkers of Visit-Prep for the same records.
C30_PatternMarkersAreFlagged ==
  (result.patterns # <<>> /\ result.visit # <<>>) =>
    \A i \in 1..Len(result.patterns[1]) :
      \A m \in TestedBy(result.patterns[1][i].type) :
        (HasData(records, m) /\ OverThreshold(m, LatestValue(records, m))) =>
          /\ getStatus(LatestValue(records, m), m) \in {"attention", "critical"}
          /\ m \in IdsOf(result.visit[1].flaggedMarkers)

C30_Witness ==
  /\ result.patterns # <<>> /\ result.visit # <<>>
  /\ TypesOf(result.patterns[1]) = {"metabolic_syndrome", "iron_deficiency", "thyroid", "kidney"}
  /\ HasData(records, "glucose") /\ LatestValue(records, "glucose") = 10001
  /\ "glucose" \in IdsOf(result.visit[1].flaggedMarkers)

====
